---- MODULE Spec2Model ----
(***************************************************************************)
(* Model of the simulated UNIX-style filesystem: bitmap allocators, inode  *)
(* manager (direct / single-indirect / double-indirect addressing),        *)
(* directory manager, path resolver, file manager and the FileSystem       *)
(* facade with its reader-writer lock, plus the task dispatcher.           *)
(*                                                                         *)
(* Scaling.  The image geometry is scaled down so that every tier of the   *)
(* block index is reached by small files: a block holds BLOCK_SIZE data    *)
(* bytes, PtrsPerBlock block pointers or EntriesPerBlock directory         *)
(* entries.  Paths are modelled after normalisation, as the sequence of    *)
(* their components ("/" is <<>>, "/a/." is <<"a", ".">>).  Timestamps,    *)
(* owner ids and permission bits carry no behaviour and are left out; the  *)
(* file-type bits of Inode.mode are the field "mode".                      *)
(*                                                                         *)
(* Blocks are typed by their last writer ("p" pointer array, "d" directory *)
(* entries, "b" data bytes, "z" all zero).  An all-zero block reads as     *)
(* zero through every view.                                                *)
(*                                                                         *)
(* Notation.  The({e : x \in {v}}) is e with x standing for the value v;   *)
(* it is how the result of a call is named and then used several times.    *)
(***************************************************************************)
EXTENDS Integers, Sequences, FiniteSets, TLC

\* ------------------------------------------------------------------ geometry
\* (scaled; the program's values are 10, 4096/4, 4096/264 and 4096; a directory
\* entry takes BLOCK_SIZE \div EntriesPerBlock bytes)
DIRECT_BLOCKS_COUNT == 2
PtrsPerBlock == 2
EntriesPerBlock == 3
BLOCK_SIZE == 3
\* number of inodes and of data blocks of the image, first data block
TotalInodes == 4
DataBlocks == 12
DataStart == 3
\* bounds of the exploration
MaxOps == 3
MaxTasks == 3
MaxCalls == 3
NumWorkers == 2
NumCallers == 3
NumProcs == 3
MaxLine == 6
StressThreads == 2
StressFiles == 2
MaxIterations == 2
MaxSessions == 2
\* a stand-alone BitmapManager: bits of a byte (the program's value is 8), its
\* total_bits, the blocks of its device, the calls made on it
BitsPerByte == 2
BitmapBits == 7
BitmapDeviceBlocks == 2
MaxBitmapOps == 5

\* the magic number a formatted image holds in block 0 (0x4D494E44)
MAGIC_NUMBER == 1296649796

TotalBlocks == DataStart + DataBlocks
\* sizeof(Inode) in bytes, scaled, and the layout of the inode table that
\* DiskSimulator::calculate_layout derives from it
SizeofInode == 1
InodesPerBlock == BLOCK_SIZE \div SizeofInode
InodeTableBlocks == (TotalInodes + InodesPerBlock - 1) \div InodesPerBlock
InodeNums == 0 .. (TotalInodes - 1)
DataBits == 0 .. (DataBlocks - 1)
DataBlockNums == DataStart .. (TotalBlocks - 1)

Names == {"a", "b", "."}
\* normalised paths: the root, its children, and the children of /a
Paths == {<<>>} \cup {<<n>> : n \in Names} \cup {<<"a", m>> : m \in Names}

VARIABLES
  inode_bitmap,     \* InodeManager::inode_bitmap, bit per inode
  data_bitmap,      \* InodeManager::data_bitmap, bit per data block (relative)
  saved_inode_bitmap, \* the inode bitmap as the image holds it (save_inode_bitmap)
  saved_data_bitmap,  \* the data bitmap as the image holds it (save_data_bitmap)
  inode_table,      \* the on-image inode table
  disk,             \* the data region: block number -> content
  file_descriptors, \* FileSystem::file_descriptors
  next_fd,          \* FileSystem::next_fd
  last,             \* record of the last facade call (for the properties)
  nops,             \* number of facade calls made
  fs_mutex,         \* FileSystem::fs_mutex_
  dispatcher_mutex, \* TaskDispatcher::dispatcher_mutex_
  workers,          \* pool workers: the command each runs and its position
  ntasks,           \* number of commands dispatched
  lower_mutex,      \* BitmapManager::bitmap_mutex_ (both bitmaps), DiskSimulator::disk_mutex_
  callers,          \* threads followed lock by lock: the calls ahead, the locks held
  host_lock,        \* the host's flock on the image file: the holding process, or 0
  procs,            \* the processes using the image: their DiskSimulator and FileSystem flags
  command_line,     \* a command line being typed, as its characters
  dispatch_mode,    \* what resolve_mode returned for it, "none" before the call
  pool,             \* ThreadPool: tasks, stop, and what became of each accepted task
  pool_workers,     \* ThreadPool::workers: where each worker thread stands
  stress,           \* StressTester::run: its position, configuration, flag and counters
  stress_workers,    \* the harness's worker threads: position and locals of worker_loop
  bitmap_manager, \* a BitmapManager: bitmap_data, free_bits_count (and the calls made on it)
  bitmap_disk, \* the blocks of the device a BitmapManager is loaded from and saved to
  fmt,               \* FileSystem::format in its steps, and a thread calling list_directory
  fd_calls, \* opens and closes of descriptors alone: how many calls, and what the last open_file returned
  mnt, \* one facade over the image: the magic in block 0, the last call and its outcome, the descriptors made stale by unmount
  inode_dev, \* the inode table block by block, and the inode last written under each number
  block_io, \* a DiskSimulator over an image of some size: the image, the last block call and its outcome
  um \* mount and unmount in their steps on thread 1, and a facade operation in its steps on thread 2

vars == <<inode_bitmap, data_bitmap, saved_inode_bitmap, saved_data_bitmap, inode_table, disk, file_descriptors,
          next_fd, last, nops, fs_mutex, dispatcher_mutex, workers, ntasks,
          lower_mutex, callers, host_lock, procs, command_line, dispatch_mode,
          pool, pool_workers, stress, stress_workers,
          bitmap_manager, bitmap_disk,
          fmt,
          fd_calls,
          mnt,
          inode_dev,
          block_io,
          um>>

\* the filesystem object and the threads of the first three specifications
basev == <<inode_bitmap, data_bitmap, saved_inode_bitmap, saved_data_bitmap, inode_table, disk, file_descriptors, next_fd,
           last, nops, fs_mutex, dispatcher_mutex, workers, ntasks>>
\* the variables of the lock-by-lock view and of the process view
lockv == <<lower_mutex, callers>>
procv == <<host_lock, procs>>
classv == <<command_line, dispatch_mode>>
poolv == <<pool, pool_workers>>
stressv == <<stress, stress_workers>>
bitmapv == <<bitmap_manager, bitmap_disk>>
formatv == <<fmt>>
fdv == <<fd_calls>>
mountv == <<mnt>>
inodev == <<inode_dev>>
blockv == <<block_io>>
unmountv == <<um>>
aux == <<lockv, procv, classv, poolv, stressv, bitmapv, formatv, fdv, mountv, inodev, blockv, unmountv>>
aux_but_lockv == <<procv, classv, poolv, stressv, bitmapv, formatv, fdv, mountv, inodev, blockv, unmountv>>
aux_but_procv == <<lockv, classv, poolv, stressv, bitmapv, formatv, fdv, mountv, inodev, blockv, unmountv>>
aux_but_classv == <<lockv, procv, poolv, stressv, bitmapv, formatv, fdv, mountv, inodev, blockv, unmountv>>
aux_but_poolv == <<lockv, procv, classv, stressv, bitmapv, formatv, fdv, mountv, inodev, blockv, unmountv>>
aux_but_stressv == <<lockv, procv, classv, poolv, bitmapv, formatv, fdv, mountv, inodev, blockv, unmountv>>
aux_but_bitmapv == <<lockv, procv, classv, poolv, stressv, formatv, fdv, mountv, inodev, blockv, unmountv>>
aux_but_formatv == <<lockv, procv, classv, poolv, stressv, bitmapv, fdv, mountv, inodev, blockv, unmountv>>
aux_but_fdv == <<lockv, procv, classv, poolv, stressv, bitmapv, formatv, mountv, inodev, blockv, unmountv>>
aux_but_mountv == <<lockv, procv, classv, poolv, stressv, bitmapv, formatv, fdv, inodev, blockv, unmountv>>
aux_but_inodev == <<lockv, procv, classv, poolv, stressv, bitmapv, formatv, fdv, mountv, blockv, unmountv>>
aux_but_blockv == <<lockv, procv, classv, poolv, stressv, bitmapv, formatv, fdv, mountv, inodev, unmountv>>
aux_but_unmountv == <<lockv, procv, classv, poolv, stressv, bitmapv, formatv, fdv, mountv, inodev, blockv>>
\* what a run of the stress harness leaves alone
beside_stress == <<last, nops, fs_mutex, dispatcher_mutex, workers, ntasks>>

\* ------------------------------------------------------------------ helpers
The(set) == CHOOSE x \in set : TRUE
Min(S) == CHOOSE x \in S : \A y \in S : x <= y
Max2(a, b) == IF a >= b THEN a ELSE b
Min2(a, b) == IF a <= b THEN a ELSE b
CeilDiv(a, b) == (a + b - 1) \div b
Range(f) == {f[i] : i \in DOMAIN f}
Take(sq, n) == SubSeq(sq, 1, Min2(n, Len(sq)))
Drop(sq, n) == SubSeq(sq, n + 1, Len(sq))
Zeros(n) == [i \in 1..n |-> 0]
RECURSIVE SelectNonZero(_)
SelectNonZero(sq) ==
  IF sq = <<>> THEN <<>>
  ELSE IF Head(sq) # 0 THEN <<Head(sq)>> \o SelectNonZero(Tail(sq))
       ELSE SelectNonZero(Tail(sq))
RECURSIVE UpToZero(_)
UpToZero(sq) ==
  IF sq = <<>> \/ Head(sq) = 0 THEN <<>> ELSE <<Head(sq)>> \o UpToZero(Tail(sq))

\* ------------------------------------------------------------------ blocks
ZeroBlock == [k |-> "z", v |-> <<>>]
Hole == [inode_number |-> 0, name |-> ""]
PtrBlock(list) ==
  LET v == [i \in 1..PtrsPerBlock |-> IF i <= Len(list) THEN list[i] ELSE 0]
  IN IF \A i \in 1..PtrsPerBlock : v[i] = 0 THEN ZeroBlock ELSE [k |-> "p", v |-> v]
DirBlock(list) ==
  LET v == [i \in 1..EntriesPerBlock |-> IF i <= Len(list) THEN list[i] ELSE Hole]
  IN IF \A i \in 1..EntriesPerBlock : v[i] = Hole THEN ZeroBlock ELSE [k |-> "d", v |-> v]
DataBlock(bytes) ==
  IF \A i \in 1..BLOCK_SIZE : bytes[i] = 0 THEN ZeroBlock ELSE [k |-> "b", v |-> bytes]
PtrView(b) == IF b.k = "p" THEN b.v ELSE Zeros(PtrsPerBlock)
DirView(b) == IF b.k = "d" THEN b.v ELSE [i \in 1..EntriesPerBlock |-> Hole]
DataView(b) == IF b.k = "b" THEN b.v ELSE Zeros(BLOCK_SIZE)

\* DiskSimulator::is_ready_for_io on an open disk
is_ready_for_io(block_num) == block_num >= 0 /\ block_num < TotalBlocks
\* DiskSimulator::read_block; blocks below the data region hold no pointers,
\* entries or file bytes
read_block(s, block_num) ==
  IF block_num \in DataBlockNums THEN s.blk[block_num] ELSE ZeroBlock
write_block(s, block_num, content) ==
  IF block_num \in DataBlockNums THEN [s EXCEPT !.blk[block_num] = content] ELSE s

\* ------------------------------------------------------------------ bitmap
find_free_bit(bm) ==
  IF \A i \in DOMAIN bm : bm[i] THEN -1 ELSE Min({i \in DOMAIN bm : ~bm[i]})
set_bit(bm, n) == [bm EXCEPT ![n] = TRUE]
free_bit(bm, n) == IF n \in DOMAIN bm THEN [bm EXCEPT ![n] = FALSE] ELSE bm
is_allocated(bm, n) == n \in DOMAIN bm /\ bm[n]

\* ------------------------------------------------------------------ inodes
\* InodeManager::initialize_new_inode / FileOperationsUtils::initialize_new_inode
NewInode(mode, link_count) ==
  [mode |-> mode, size |-> 0, link_count |-> link_count,
   direct_blocks |-> Zeros(DIRECT_BLOCKS_COUNT),
   indirect_block |-> -1, double_indirect_block |-> -1]
get_inode_position(n) == n >= 0 /\ n < TotalInodes
write_inode(s, n, inode) == [s EXCEPT !.it[n] = inode]

read_indirect_block(s, block_num) ==
  IF is_ready_for_io(block_num)
  THEN [ok |-> TRUE, list |-> UpToZero(PtrView(read_block(s, block_num)))]
  ELSE [ok |-> FALSE, list |-> <<>>]
write_indirect_block(s, block_num, data_blocks) ==
  IF is_ready_for_io(block_num)
  THEN [ok |-> TRUE, s |-> write_block(s, block_num, PtrBlock(data_blocks))]
  ELSE [ok |-> FALSE, s |-> s]

RECURSIVE ReadInner(_, _)
ReadInner(s, ptrs) ==
  IF ptrs = <<>> THEN [ok |-> TRUE, list |-> <<>>]
  ELSE LET r == read_indirect_block(s, Head(ptrs))
           rest == ReadInner(s, Tail(ptrs))
       IN IF r.ok /\ rest.ok THEN [ok |-> TRUE, list |-> r.list \o rest.list]
          ELSE [ok |-> FALSE, list |-> <<>>]

get_data_blocks(s, n) ==
  IF ~get_inode_position(n) THEN [ok |-> FALSE, list |-> <<>>]
  ELSE
    LET inode == s.it[n]
        d == SelectNonZero(inode.direct_blocks)
        ind == IF inode.indirect_block # -1
               THEN read_indirect_block(s, inode.indirect_block)
               ELSE [ok |-> TRUE, list |-> <<>>]
        dbl == IF inode.double_indirect_block # -1
               THEN read_indirect_block(s, inode.double_indirect_block)
               ELSE [ok |-> TRUE, list |-> <<>>]
        inner == IF dbl.ok THEN ReadInner(s, dbl.list) ELSE [ok |-> FALSE, list |-> <<>>]
    IN IF ind.ok /\ inner.ok
       THEN [ok |-> TRUE, list |-> d \o ind.list \o inner.list]
       ELSE [ok |-> FALSE, list |-> <<>>]

\* ------------------------------------------------------------------ block allocation
\* InodeManager::allocate_indirect_block: first-fit bit, block zeroed
allocate_indirect_block(s) ==
  LET bit == find_free_bit(s.db)
  IN IF bit = -1 THEN [ok |-> FALSE, s |-> s, block_num |-> -1]
     ELSE [ok |-> TRUE,
           s |-> write_block([s EXCEPT !.db = set_bit(s.db, bit)], DataStart + bit, ZeroBlock),
           block_num |-> DataStart + bit]
free_indirect_block(s, block_num) ==
  IF block_num = -1 THEN s ELSE [s EXCEPT !.db = free_bit(s.db, block_num - DataStart)]

RECURSIVE FreeBits(_, _)
FreeBits(bm, blocks) ==
  IF blocks = <<>> THEN bm
  ELSE FreeBits(free_bit(bm, Head(blocks) - DataStart), Tail(blocks))

\* InodeManager::allocate_multiple_blocks (allocate_single_block in a loop, with
\* roll-back of the bits taken so far when the bitmap runs out)
RECURSIVE AllocLoop(_, _, _)
AllocLoop(bm, count, acc) ==
  IF count = 0 THEN [ok |-> TRUE, db |-> bm, list |-> acc]
  ELSE LET bit == find_free_bit(bm)
       IN IF bit = -1 THEN [ok |-> FALSE, db |-> FreeBits(bm, acc), list |-> <<>>]
          ELSE AllocLoop(set_bit(bm, bit), count - 1, Append(acc, DataStart + bit))
allocate_multiple_blocks(bm, count) == AllocLoop(bm, count, <<>>)

\* one iteration of the refill loop of update_inode_block_pointers in the
\* single-indirect tier
SingleIndirectStep(s, inode, blk, relative_index) ==
  The({ IF ~a.ok THEN [ok |-> FALSE, s |-> a.s, inode |-> inode]
        ELSE The({ [ok |-> w.ok, s |-> w.s,
                    inode |-> [inode EXCEPT !.indirect_block = a.block_num]]
                   : w \in {write_indirect_block(
                              a.s, a.block_num,
                              Append(IF a.block_num # -1
                                     THEN read_indirect_block(a.s, a.block_num).list
                                     ELSE <<>>, blk))} })
        : a \in {IF relative_index = 0 /\ inode.indirect_block = -1
                 THEN allocate_indirect_block(s)
                 ELSE [ok |-> TRUE, s |-> s, block_num |-> inode.indirect_block]} })

\* the pointer list of the double-indirect block with slot d_indirect_idx
\* (0-based) set to block_num, grown with zeros when shorter
SetPointer(ptrs, d_indirect_idx, block_num) ==
  [j \in 1..Max2(Len(ptrs), d_indirect_idx + 1) |->
     IF j = d_indirect_idx + 1 THEN block_num
     ELSE IF j <= Len(ptrs) THEN ptrs[j] ELSE 0]

\* the inner block of slot d_indirect_idx: the one the double-indirect block
\* names, or a new one that is then entered in the double-indirect block
TargetIndirectBlock(s, double_indirect_block, d_indirect_idx) ==
  The({ IF d_indirect_idx < Len(ptrs) /\ ptrs[d_indirect_idx + 1] # 0
        THEN [ok |-> TRUE, s |-> s, block_num |-> ptrs[d_indirect_idx + 1]]
        ELSE The({ IF ~b.ok THEN b
                   ELSE The({ [ok |-> wd.ok, s |-> wd.s, block_num |-> b.block_num]
                              : wd \in {write_indirect_block(
                                          b.s, double_indirect_block,
                                          SetPointer(ptrs, d_indirect_idx, b.block_num))} })
                   : b \in {allocate_indirect_block(s)} })
        : ptrs \in {read_indirect_block(s, double_indirect_block).list} })

\* ... and in the double-indirect tier: the double-indirect block and the inner
\* block it names are read as they are on disk, the block is pushed onto the
\* inner block's list
DoubleIndirectStep(s, inode, blk, relative_index) ==
  The({ IF ~a.ok THEN [ok |-> FALSE, s |-> a.s, inode |-> inode]
        ELSE IF (relative_index - PtrsPerBlock) \div PtrsPerBlock >= PtrsPerBlock
        THEN [ok |-> FALSE, s |-> a.s,
              inode |-> [inode EXCEPT !.double_indirect_block = a.block_num]]
        ELSE The({ IF ~t.ok
                   THEN [ok |-> FALSE, s |-> t.s,
                         inode |-> [inode EXCEPT !.double_indirect_block = a.block_num]]
                   ELSE The({ [ok |-> w.ok, s |-> w.s,
                               inode |-> [inode EXCEPT !.double_indirect_block = a.block_num]]
                              : w \in {write_indirect_block(
                                         t.s, t.block_num,
                                         Append(read_indirect_block(t.s, t.block_num).list,
                                                blk))} })
                   : t \in {TargetIndirectBlock(
                              a.s, a.block_num,
                              (relative_index - PtrsPerBlock) \div PtrsPerBlock)} })
        : a \in {IF inode.double_indirect_block = -1
                 THEN allocate_indirect_block(s)
                 ELSE [ok |-> TRUE, s |-> s, block_num |-> inode.double_indirect_block]} })

\* the refill loop of update_inode_block_pointers, from all_blocks[k] on
RECURSIVE RefillLoop(_, _, _, _)
RefillLoop(s, inode, all_blocks, k) ==
  IF k > Len(all_blocks) THEN [ok |-> TRUE, s |-> s, inode |-> inode]
  ELSE The({ IF r.ok THEN RefillLoop(r.s, r.inode, all_blocks, k + 1) ELSE r
             : r \in {IF k - 1 < DIRECT_BLOCKS_COUNT
                      THEN [ok |-> TRUE, s |-> s,
                            inode |-> [inode EXCEPT !.direct_blocks[k] = all_blocks[k]]]
                      ELSE IF k - 1 - DIRECT_BLOCKS_COUNT < PtrsPerBlock
                      THEN SingleIndirectStep(s, inode, all_blocks[k],
                                              k - 1 - DIRECT_BLOCKS_COUNT)
                      ELSE DoubleIndirectStep(s, inode, all_blocks[k],
                                              k - 1 - DIRECT_BLOCKS_COUNT)} })

\* InodeManager::update_inode_block_pointers: the old single-indirect block is
\* released, the pointers are refilled from the whole list, and the inode is
\* written only when the refill succeeded
update_inode_block_pointers(s, inode_id, block_indices) ==
  IF ~get_inode_position(inode_id) THEN [ok |-> FALSE, s |-> s]
  ELSE The({ IF ~cur.ok THEN [ok |-> FALSE, s |-> s]
             ELSE The({ IF r.ok THEN [ok |-> TRUE, s |-> write_inode(r.s, inode_id, r.inode)]
                        ELSE [ok |-> FALSE, s |-> r.s]
                        : r \in {RefillLoop(
                                   free_indirect_block(s, s.it[inode_id].indirect_block),
                                   [s.it[inode_id] EXCEPT
                                      !.direct_blocks = Zeros(DIRECT_BLOCKS_COUNT),
                                      !.indirect_block = -1],
                                   cur.list \o block_indices, 1)} })
             : cur \in {get_data_blocks(s, inode_id)} })

\* InodeManager::save_inode_bitmap, save_data_bitmap: the bitmap in memory is
\* written to its blocks of the image
save_inode_bitmap(s) == [s EXCEPT !.sib = s.ib]
save_data_bitmap(s) == [s EXCEPT !.sdb = s.db]
\* InodeManager::load_bitmaps: both bitmaps are read from the image
load_bitmaps(s) == [s EXCEPT !.ib = s.sib, !.db = s.sdb]

\* InodeManager::allocate_data_blocks: on a failed pointer update the bits
\* reserved for the new blocks are released again, in memory; the bitmap is
\* saved when the update succeeded
allocate_data_blocks(s, inode_num, block_count) ==
  IF block_count <= 0 THEN [ok |-> FALSE, s |-> s, list |-> <<>>]
  ELSE The({ IF ~m.ok THEN [ok |-> FALSE, s |-> s, list |-> <<>>]
             ELSE The({ IF ~u.ok
                        THEN [ok |-> FALSE,
                              s |-> [u.s EXCEPT !.db = FreeBits(u.s.db, m.list)],
                              list |-> <<>>]
                        ELSE [ok |-> TRUE, s |-> save_data_bitmap(u.s), list |-> m.list]
                        : u \in {update_inode_block_pointers(
                                   [s EXCEPT !.db = m.db], inode_num, m.list)} })
             : m \in {allocate_multiple_blocks(s.db, block_count)} })

\* InodeManager::free_all_data_blocks_for_inode
free_all_data_blocks_for_inode(s, inode) ==
  LET s1 == [s EXCEPT !.db = FreeBits(s.db, SelectNonZero(inode.direct_blocks))]
      ind == IF inode.indirect_block # -1
             THEN read_indirect_block(s1, inode.indirect_block)
             ELSE [ok |-> FALSE, list |-> <<>>]
      s2 == IF inode.indirect_block # -1
            THEN free_indirect_block(
                   [s1 EXCEPT !.db = FreeBits(s1.db, IF ind.ok THEN ind.list ELSE <<>>)],
                   inode.indirect_block)
            ELSE s1
      s3 == free_indirect_block(s2, inode.double_indirect_block)
  IN [s |-> s3,
      inode |-> [inode EXCEPT !.direct_blocks = Zeros(DIRECT_BLOCKS_COUNT),
                              !.indirect_block = -1,
                              !.double_indirect_block = -1]]

\* InodeManager::free_data_blocks
free_data_blocks(s, inode_num) ==
  IF ~get_inode_position(inode_num) THEN [ok |-> FALSE, s |-> s]
  ELSE The({ [ok |-> TRUE,
              s |-> save_data_bitmap(write_inode(f.s, inode_num, [f.inode EXCEPT !.size = 0]))]
             : f \in {free_all_data_blocks_for_inode(s, s.it[inode_num])} })

is_inode_allocated(s, inode_num) == is_allocated(s.ib, inode_num)

\* an allocate_inode that leaves the bit of the number it returns clear
allocate_inode_without_marking(s) ==
  LET bit == find_free_bit(s.ib)
  IN IF bit = -1 THEN [ok |-> FALSE, s |-> s, inode_num |-> -1]
     ELSE [ok |-> TRUE, s |-> write_inode(s, bit, NewInode("none", 1)), inode_num |-> bit]
\* InodeManager::allocate_inode
allocate_inode(s) ==
  LET bit == find_free_bit(s.ib)
  IN IF bit = -1 THEN [ok |-> FALSE, s |-> s, inode_num |-> -1]
     ELSE [ok |-> TRUE,
           s |-> save_inode_bitmap(
                   write_inode([s EXCEPT !.ib = set_bit(s.ib, bit)], bit, NewInode("none", 1))),
           inode_num |-> bit]

\* a free_inode that clears the inode's bit and leaves its data blocks allocated
free_inode_keeping_blocks(s, inode_num) ==
  IF ~is_inode_allocated(s, inode_num) THEN [ok |-> FALSE, s |-> s]
  ELSE [ok |-> TRUE, s |-> [s EXCEPT !.ib = free_bit(s.ib, inode_num)]]

\* InodeManager::free_inode
free_inode(s, inode_num) ==
  IF ~is_inode_allocated(s, inode_num) THEN [ok |-> FALSE, s |-> s]
  ELSE The({ IF ~f.ok THEN [ok |-> FALSE, s |-> f.s]
             ELSE [ok |-> TRUE,
                   s |-> save_inode_bitmap([f.s EXCEPT !.ib = free_bit(f.s.ib, inode_num)])]
             : f \in {free_data_blocks(s, inode_num)} })

\* ------------------------------------------------------------------ directories
SizeofDirectoryEntry == BLOCK_SIZE \div EntriesPerBlock
\* BlockUtils::calculate_blocks_needed
calculate_blocks_needed(size) == (size + BLOCK_SIZE - 1) \div BLOCK_SIZE
\* BlockUtils::is_valid_block_index: the bound is the block count of a
\* default-size image (DISK_SIZE / BLOCK_SIZE), whatever image is open; the
\* index is unsigned, so a negative block number is a large one
is_valid_block_index(block_index) == block_index >= 0 /\ block_index < TotalBlocks

Entry(inode_number, name) == [inode_number |-> inode_number, name |-> name]
SelectNamed(sq) == SelectSeq(sq, LAMBDA e : e.name # "")

RECURSIVE ReadEntries(_, _)
ReadEntries(s, blocks) ==
  IF blocks = <<>> THEN [ok |-> TRUE, list |-> <<>>]
  ELSE IF ~is_ready_for_io(Head(blocks)) THEN [ok |-> FALSE, list |-> <<>>]
  ELSE The({ IF rest.ok
             THEN [ok |-> TRUE,
                   list |-> SelectNamed(DirView(read_block(s, Head(blocks)))) \o rest.list]
             ELSE rest
             : rest \in {ReadEntries(s, Tail(blocks))} })

\* DirectoryManager::load_directory_inode / PathManager::load_directory_inode
load_directory_inode(s, inode_num) ==
  get_inode_position(inode_num) /\ s.it[inode_num].mode = "dir"

\* DirectoryManager::read_directory (FileSystem::read_directory is the same code)
read_directory(s, inode_num) ==
  IF ~load_directory_inode(s, inode_num) THEN [ok |-> FALSE, list |-> <<>>]
  ELSE IF s.it[inode_num].size = 0 THEN [ok |-> TRUE, list |-> <<>>]
  ELSE The({ IF ~b.ok THEN [ok |-> FALSE, list |-> <<>>] ELSE ReadEntries(s, b.list)
             : b \in {get_data_blocks(s, inode_num)} })

\* the block loop of write_directory: block i takes the next EntriesPerBlock
\* entries, the rest of the block is zero
RECURSIVE WriteEntryBlocks(_, _, _)
WriteEntryBlocks(s, blocks, entries) ==
  IF blocks = <<>> THEN [ok |-> TRUE, s |-> s]
  ELSE IF ~is_valid_block_index(Head(blocks)) \/ ~is_ready_for_io(Head(blocks))
  THEN [ok |-> FALSE, s |-> s]
  ELSE WriteEntryBlocks(
         write_block(s, Head(blocks), DirBlock(Take(entries, EntriesPerBlock))),
         Tail(blocks), Drop(entries, Min2(EntriesPerBlock, Len(entries))))

\* the blocks write_directory writes: the directory's blocks, after
\* allocate_data_blocks has added what the entries need beyond them
BlocksForEntries(s, inode_num, cur, required_blocks) ==
  IF Len(cur.list) >= required_blocks THEN [ok |-> TRUE, s |-> s, list |-> cur.list]
  ELSE The({ IF ~a.ok THEN [ok |-> FALSE, s |-> a.s, list |-> <<>>]
             ELSE The({ [ok |-> cur2.ok, s |-> a.s, list |-> cur2.list]
                        : cur2 \in {get_data_blocks(a.s, inode_num)} })
             : a \in {allocate_data_blocks(s, inode_num, required_blocks - Len(cur.list))} })

\* DirectoryManager::write_directory (FileSystem::write_directory is the same
\* code): the inode read on entry is the one written back at the end, with the
\* new size
write_directory(s, inode_num, entries) ==
  IF ~get_inode_position(inode_num) THEN [ok |-> FALSE, s |-> s]
  ELSE The({
    IF ~cur.ok THEN [ok |-> FALSE, s |-> s]
    ELSE The({
      IF ~b.ok THEN [ok |-> FALSE, s |-> b.s]
      ELSE The({ IF ~w.ok THEN [ok |-> FALSE, s |-> w.s]
                 ELSE [ok |-> TRUE,
                       s |-> write_inode(w.s, inode_num,
                                         [s.it[inode_num] EXCEPT
                                            !.size = Len(entries) * SizeofDirectoryEntry])]
                 : w \in {WriteEntryBlocks(b.s, b.list, entries)} })
      : b \in {BlocksForEntries(s, inode_num, cur,
                 calculate_blocks_needed(Len(entries) * SizeofDirectoryEntry))} })
    : cur \in {get_data_blocks(s, inode_num)} })

\* DirectoryManager::find_entry_index (1-based; 0 when absent)
find_entry_index(entries, name) ==
  IF \E i \in 1..Len(entries) : entries[i].name = name
  THEN Min({i \in 1..Len(entries) : entries[i].name = name}) ELSE 0

\* the entries without the one at index (1-based)
RemoveAt(entries, index) ==
  SubSeq(entries, 1, index - 1) \o SubSeq(entries, index + 1, Len(entries))

\* DirectoryManager::add_directory_entry
add_directory_entry(s, dir_inode, name, inode_num) ==
  The({ IF ~r.ok \/ find_entry_index(r.list, name) # 0 THEN [ok |-> FALSE, s |-> s]
        ELSE write_directory(s, dir_inode, Append(r.list, Entry(inode_num, name)))
        : r \in {read_directory(s, dir_inode)} })

\* DirectoryManager::remove_directory_entry
remove_directory_entry(s, dir_inode, name) ==
  The({ IF ~r.ok \/ find_entry_index(r.list, name) = 0 THEN [ok |-> FALSE, s |-> s]
        ELSE write_directory(s, dir_inode, RemoveAt(r.list, find_entry_index(r.list, name)))
        : r \in {read_directory(s, dir_inode)} })

\* ------------------------------------------------------------------ paths
\* PathManager::get_parent_path / get_basename, PathUtils::extract_directory /
\* extract_filename on a normalised path
get_parent_path(path) == IF path = <<>> THEN <<>> ELSE SubSeq(path, 1, Len(path) - 1)
get_basename(path) == IF path = <<>> THEN "" ELSE path[Len(path)]

\* PathManager::find_inode_in_directory
find_inode_in_directory(s, parent_inode, name) ==
  IF ~load_directory_inode(s, parent_inode) THEN -1
  ELSE The({ IF ~r.ok \/ find_entry_index(r.list, name) = 0 THEN -1
             ELSE r.list[find_entry_index(r.list, name)].inode_number
             : r \in {The({ IF b.ok THEN ReadEntries(s, b.list)
                            ELSE [ok |-> FALSE, list |-> <<>>]
                            : b \in {get_data_blocks(s, parent_inode)} })} })

\* PathManager::find_inode: "/" is inode 0, every other path descends from it
RECURSIVE Descend(_, _, _)
Descend(s, current_inode, components) ==
  IF components = <<>> THEN current_inode
  ELSE The({ IF next = -1 THEN -1 ELSE Descend(s, next, Tail(components))
             : next \in {find_inode_in_directory(s, current_inode, Head(components))} })
find_inode(s, path) == IF path = <<>> THEN 0 ELSE Descend(s, 0, path)
file_exists(s, path) == find_inode(s, path) # -1

\* ------------------------------------------------------------------ directory operations
\* the tail of create_directory, once the inode new_inode is allocated in s:
\* inode written, one block allocated, "." and ".." written, entry added to the
\* parent; every failure releases the inode again
FillNewDirectory(s, new_inode, parent_inode, basename) ==
  The({
    IF ~b.ok THEN [ok |-> FALSE, s |-> free_inode(b.s, new_inode).s]
    ELSE The({
      IF ~w.ok THEN [ok |-> FALSE, s |-> free_inode(w.s, new_inode).s]
      ELSE The({ IF ~e.ok THEN [ok |-> FALSE, s |-> free_inode(e.s, new_inode).s]
                 ELSE [ok |-> TRUE, s |-> e.s]
                 : e \in {add_directory_entry(w.s, parent_inode, basename, new_inode)} })
      : w \in {write_directory(b.s, new_inode,
                               <<Entry(new_inode, "."), Entry(parent_inode, "..")>>)} })
    : b \in {allocate_data_blocks(write_inode(s, new_inode, NewInode("dir", 2)),
                                  new_inode, 1)} })

\* DirectoryManager::create_directory
create_directory(s, path) ==
  The({ IF file_exists(s, path) \/ parent_inode = -1 THEN [ok |-> FALSE, s |-> s]
        ELSE The({ IF ~a.ok THEN [ok |-> FALSE, s |-> a.s]
                   ELSE FillNewDirectory(a.s, a.inode_num, parent_inode, get_basename(path))
                   : a \in {allocate_inode(s)} })
        : parent_inode \in {find_inode(s, get_parent_path(path))} })

\* the tail of remove_directory and of delete_file: the entry leaves the parent
\* directory, then the inode and its blocks are released
Unlink(s, path, inode_num) ==
  The({ IF parent_inode = -1 THEN [ok |-> FALSE, s |-> s]
        ELSE The({ IF ~r.ok THEN [ok |-> FALSE, s |-> r.s] ELSE free_inode(r.s, inode_num)
                   : r \in {remove_directory_entry(s, parent_inode, get_basename(path))} })
        : parent_inode \in {find_inode(s, get_parent_path(path))} })

\* a remove_directory that does not look at the entries of the directory
remove_directory_unchecked(s, path) ==
  IF path = <<>> \/ find_inode(s, path) = -1 THEN [ok |-> FALSE, s |-> s]
  ELSE Unlink(s, path, find_inode(s, path))

\* DirectoryManager::remove_directory: only the path "/" is refused as the root
remove_directory(s, path) ==
  IF path = <<>> THEN [ok |-> FALSE, s |-> s]
  ELSE The({ IF inode_num = -1 THEN [ok |-> FALSE, s |-> s]
             ELSE The({ IF ~entries.ok \/ Len(entries.list) > 2 THEN [ok |-> FALSE, s |-> s]
                        ELSE Unlink(s, path, inode_num)
                        : entries \in {read_directory(s, inode_num)} })
             : inode_num \in {find_inode(s, path)} })

\* FileSystem::allocate_file_inode / FileManager::allocate_file_inode
allocate_file_inode(s) ==
  The({ IF ~a.ok THEN a
        ELSE [ok |-> TRUE, s |-> write_inode(a.s, a.inode_num, NewInode("none", 1)),
              inode_num |-> a.inode_num]
        : a \in {allocate_inode(s)} })

\* FileSystem::create_file (FileManager::create_file is the same code); ret is
\* the new inode number or -1
create_file(s, path) ==
  The({
    IF file_exists(s, path) \/ parent_inode = -1 THEN [ret |-> -1, s |-> s]
    ELSE The({
      IF ~a.ok THEN [ret |-> -1, s |-> a.s]
      ELSE The({ IF ~e.ok THEN [ret |-> -1, s |-> free_inode(e.s, a.inode_num).s]
                 ELSE [ret |-> a.inode_num, s |-> e.s]
                 : e \in {add_directory_entry(
                            write_inode(a.s, a.inode_num,
                                        [a.s.it[a.inode_num] EXCEPT !.mode = "file"]),
                            parent_inode, get_basename(path), a.inode_num)} })
      : a \in {allocate_file_inode(s)} })
    : parent_inode \in {find_inode(s, get_parent_path(path))} })

\* FileSystem::delete_file
delete_file(s, path) ==
  The({ IF inode_num = -1 \/ ~get_inode_position(inode_num) THEN [ok |-> FALSE, s |-> s]
        ELSE IF s.it[inode_num].mode = "dir" THEN [ok |-> FALSE, s |-> s]
        ELSE Unlink(s, path, inode_num)
        : inode_num \in {find_inode(s, path)} })

\* ------------------------------------------------------------------ mount and format
\* the entry fix-up of ensure_root_directory: "." and ".." name inode 0, and
\* are inserted in front when missing
FixRootEntries(entries) ==
  LET fixed == [i \in 1..Len(entries) |->
                  IF entries[i].name \in {".", ".."} THEN Entry(0, entries[i].name)
                  ELSE entries[i]]
      has_dot == \E i \in 1..Len(entries) : entries[i].name = "."
      has_dotdot == \E i \in 1..Len(entries) : entries[i].name = ".."
      with_dot == IF has_dot THEN fixed ELSE <<Entry(0, ".")>> \o fixed
  IN IF has_dotdot THEN with_dot
     ELSE <<Head(with_dot), Entry(0, "..")>> \o Tail(with_dot)

\* the root inode as ensure_root_directory leaves it: a non-directory is
\* initialised as a directory, a directory gets a link count of at least 2
RootInodeFixed(root_inode) ==
  IF root_inode.mode # "dir" THEN NewInode("dir", 2)
  ELSE IF root_inode.link_count < 2 THEN [root_inode EXCEPT !.link_count = 2]
  ELSE root_inode

\* the tail of ensure_root_directory, when the entries have to be written: a
\* root without data block gets one first
WriteRootEntries(s, entries) ==
  The({ IF ~blocks.ok THEN [ok |-> FALSE, s |-> s]
        ELSE IF blocks.list # <<>> THEN write_directory(s, 0, entries)
        ELSE The({ IF ~b.ok THEN [ok |-> FALSE, s |-> b.s]
                   ELSE write_directory(b.s, 0, entries)
                   : b \in {allocate_data_blocks(s, 0, 1)} })
        : blocks \in {get_data_blocks(s, 0)} })

\* FileSystem::ensure_root_directory
ensure_root_directory(s) ==
  The({
    IF ~a.ok \/ a.inode_num # 0 THEN [ok |-> FALSE, s |-> a.s]
    ELSE The({
      The({ IF r.ok /\ FixRootEntries(r.list) = r.list THEN [ok |-> TRUE, s |-> s1]
            ELSE WriteRootEntries(s1, FixRootEntries(IF r.ok THEN r.list ELSE <<>>))
            : r \in {read_directory(s1, 0)} })
      : s1 \in {write_inode(a.s, 0, RootInodeFixed(a.s.it[0]))} })
    : a \in {IF is_inode_allocated(s, 0) THEN [ok |-> TRUE, s |-> s, inode_num |-> 0]
             ELSE allocate_inode(s)} })

\* a zeroed inode-table slot (DiskSimulator::initialize_inode_table)
ZeroInode ==
  [mode |-> "none", size |-> 0, link_count |-> 0,
   direct_blocks |-> Zeros(DIRECT_BLOCKS_COUNT),
   indirect_block |-> 0, double_indirect_block |-> 0]

\* a format that leaves the bitmaps and the inode table as they are
format_disk_keeping_metadata(s) == s

\* DiskSimulator::initialize_bitmaps: the bitmap blocks of the image are zero
initialize_bitmaps(s) ==
  [s EXCEPT !.sib = [i \in InodeNums |-> FALSE], !.sdb = [i \in DataBits |-> FALSE]]

\* DiskSimulator::initialize_inode_table: the inode table of the image is zero
initialize_inode_table(s) == [s EXCEPT !.it = [i \in InodeNums |-> ZeroInode]]

\* InodeManager::reload_bitmap
reload_bitmap(s) == load_bitmaps(s)

\* DiskSimulator::format_disk followed by the bitmap reload: both bitmaps and
\* the inode table are zero, the data region is left as it is
format_disk(s) == reload_bitmap(initialize_inode_table(initialize_bitmaps(s)))

\* FileSystem::format on a mounted file system
format(s) == ensure_root_directory(format_disk(s))

\* ------------------------------------------------------------------ file data
\* the copy loop of FileOperationsUtils::read_data_from_blocks (i is 0-based)
RECURSIVE ReadLoop(_, _, _, _, _, _)
ReadLoop(s, blocks, i, start_offset, size, acc) ==
  IF i >= Len(blocks) \/ Len(acc) >= size THEN [ok |-> Len(acc) = size, data |-> acc]
  ELSE IF ~is_ready_for_io(blocks[i + 1]) THEN [ok |-> FALSE, data |-> acc]
  ELSE ReadLoop(s, blocks, i + 1, 0, size,
                acc \o SubSeq(DataView(read_block(s, blocks[i + 1])), start_offset + 1,
                              start_offset + Min2(BLOCK_SIZE - start_offset, size - Len(acc))))

\* FileOperationsUtils::read_data_from_blocks
read_data_from_blocks(s, blocks, offset, size) ==
  IF blocks = <<>> THEN [ok |-> FALSE, data |-> <<>>]
  ELSE ReadLoop(s, blocks, offset \div BLOCK_SIZE, offset % BLOCK_SIZE, size, <<>>)

\* the copy loop of FileOperationsUtils::write_data_to_blocks: a block written
\* in part is read first, a block written in full starts from zeros
\* the block buffer after the memcpy: copy_size bytes of the buffer, taken from
\* bytes_written on, land at start_offset
Filled(block_buffer, start_offset, copy_size, buffer, bytes_written) ==
  [j \in 1..BLOCK_SIZE |->
     IF j > start_offset /\ j <= start_offset + copy_size
     THEN buffer[bytes_written + j - start_offset]
     ELSE block_buffer[j]]

RECURSIVE WriteLoop(_, _, _, _, _, _)
WriteLoop(s, blocks, i, start_offset, buffer, bytes_written) ==
  IF i >= Len(blocks) \/ bytes_written >= Len(buffer)
  THEN [ok |-> bytes_written = Len(buffer), s |-> s]
  ELSE IF ~is_ready_for_io(blocks[i + 1]) THEN [ok |-> FALSE, s |-> s]
  ELSE WriteLoop(
         write_block(s, blocks[i + 1],
           DataBlock(Filled(
             IF start_offset > 0 \/ Len(buffer) - bytes_written < BLOCK_SIZE
             THEN DataView(read_block(s, blocks[i + 1])) ELSE Zeros(BLOCK_SIZE),
             start_offset,
             Min2(BLOCK_SIZE - start_offset, Len(buffer) - bytes_written),
             buffer, bytes_written))),
         blocks, i + 1, 0, buffer,
         bytes_written + Min2(BLOCK_SIZE - start_offset, Len(buffer) - bytes_written))

\* FileOperationsUtils::write_data_to_blocks
write_data_to_blocks(s, blocks, offset, buffer) ==
  IF blocks = <<>> THEN [ok |-> FALSE, s |-> s]
  ELSE WriteLoop(s, blocks, offset \div BLOCK_SIZE, offset % BLOCK_SIZE, buffer, 0)

\* ------------------------------------------------------------------ file descriptors
\* first descriptor handed out, and the last descriptor before next_fd wraps
\* (1024 in the source, scaled so that a few opens reach it)
FirstFd == 3
MaxFd == 5

\* the search loop of FileManager::allocate_file_descriptor()
RECURSIVE NextFreeFd(_, _)
NextFreeFd(fdt, nfd) ==
  IF nfd \in DOMAIN fdt
  THEN NextFreeFd(fdt, IF nfd + 1 > MaxFd THEN FirstFd ELSE nfd + 1)
  ELSE nfd

\* FileManager::allocate_file_descriptor(inode_num, mode, fd)
allocate_file_descriptor(s, inode_num, mode) ==
  The({ [fd |-> fd,
         s |-> [s EXCEPT !.nfd = fd + 1,
                         !.fdt = [f \in DOMAIN s.fdt \cup {fd} |->
                                    IF f = fd
                                    THEN [inode_num |-> inode_num, mode |-> mode, position |-> 0]
                                    ELSE s.fdt[f]]]]
        : fd \in {NextFreeFd(s.fdt, s.nfd)} })

\* FileManager::free_file_descriptor
free_file_descriptor(s, fd) ==
  [s EXCEPT !.fdt = [f \in DOMAIN s.fdt \ {fd} |-> s.fdt[f]]]

\* FileManager::get_file_descriptor
get_file_descriptor(s, fd) == fd \in DOMAIN s.fdt

\* FileManager::open_file; mode is the set of OPEN_MODE_ flags
open_file(s, path, mode) ==
  The({
    IF c.ret = -1 THEN [ret |-> -1, s |-> c.s]
    ELSE The({ IF "APPEND" \notin mode THEN [ret |-> a.fd, s |-> a.s]
               ELSE IF ~get_inode_position(c.ret)
               THEN [ret |-> -1, s |-> free_file_descriptor(a.s, a.fd)]
               ELSE [ret |-> a.fd,
                     s |-> [a.s EXCEPT !.fdt[a.fd].position = a.s.it[c.ret].size]]
               : a \in {allocate_file_descriptor(c.s, c.ret, mode)} })
    : c \in {The({ IF found = -1 /\ "CREATE" \in mode THEN create_file(s, path)
                   ELSE [ret |-> found, s |-> s]
                   : found \in {find_inode(s, path)} })} })

\* FileManager::close_file
close_file(s, fd) ==
  IF fd \notin DOMAIN s.fdt THEN [ok |-> FALSE, s |-> s]
  ELSE [ok |-> TRUE, s |-> free_file_descriptor(s, fd)]

\* the tail of read_file, for an open descriptor desc of an inode in range
ReadAt(s, fd, desc, size) ==
  IF desc.position >= s.it[desc.inode_num].size THEN [ret |-> 0, s |-> s, data |-> <<>>]
  ELSE The({
    IF ~blocks.ok THEN [ret |-> -1, s |-> s, data |-> <<>>]
    ELSE The({ IF ~r.ok THEN [ret |-> -1, s |-> s, data |-> <<>>]
               ELSE [ret |-> Len(r.data),
                     s |-> [s EXCEPT !.fdt[fd].position = desc.position + Len(r.data)],
                     data |-> r.data]
               : r \in {read_data_from_blocks(
                          s, blocks.list, desc.position,
                          Min2(size, s.it[desc.inode_num].size - desc.position))} })
    : blocks \in {get_data_blocks(s, desc.inode_num)} })

\* read_file without the test for the end of the file and without the clamp of
\* the request to the bytes left
read_file_unclamped(s, fd, size) ==
  IF ~get_file_descriptor(s, fd) THEN [ret |-> -1, s |-> s, data |-> <<>>]
  ELSE IF "READ" \notin s.fdt[fd].mode \/ ~get_inode_position(s.fdt[fd].inode_num)
  THEN [ret |-> -1, s |-> s, data |-> <<>>]
  ELSE The({
    IF ~blocks.ok THEN [ret |-> -1, s |-> s, data |-> <<>>]
    ELSE The({ IF ~r.ok THEN [ret |-> -1, s |-> s, data |-> <<>>]
               ELSE [ret |-> Len(r.data),
                     s |-> [s EXCEPT !.fdt[fd].position = s.fdt[fd].position + Len(r.data)],
                     data |-> r.data]
               : r \in {read_data_from_blocks(s, blocks.list, s.fdt[fd].position, size)} })
    : blocks \in {get_data_blocks(s, s.fdt[fd].inode_num)} })

\* FileManager::read_file
read_file(s, fd, size) ==
  IF ~get_file_descriptor(s, fd) THEN [ret |-> -1, s |-> s, data |-> <<>>]
  ELSE IF "READ" \notin s.fdt[fd].mode \/ ~get_inode_position(s.fdt[fd].inode_num)
  THEN [ret |-> -1, s |-> s, data |-> <<>>]
  ELSE ReadAt(s, fd, s.fdt[fd], size)

\* the blocks write_file asks allocate_data_blocks for: those the write needs
\* beyond the ones the size of the file accounts for
AdditionalBlocks(inode, desc, size) ==
  (desc.position + size + BLOCK_SIZE - 1) \div BLOCK_SIZE
    - (inode.size + BLOCK_SIZE - 1) \div BLOCK_SIZE

\* the tail of write_file, in the state a.s that allocate_data_blocks left: the
\* inode is read again, the bytes are written, size and position are updated
WriteAt(s, fd, desc, buffer) ==
  The({
    IF ~blocks.ok THEN [ret |-> -1, s |-> s]
    ELSE The({ IF ~w.ok THEN [ret |-> -1, s |-> w.s]
               ELSE [ret |-> Len(buffer),
                     s |-> [write_inode(w.s, desc.inode_num,
                                        [s.it[desc.inode_num] EXCEPT
                                           !.size = Max2(s.it[desc.inode_num].size,
                                                         desc.position + Len(buffer))])
                            EXCEPT !.fdt[fd].position = desc.position + Len(buffer)]]
               : w \in {write_data_to_blocks(s, blocks.list, desc.position, buffer)} })
    : blocks \in {get_data_blocks(s, desc.inode_num)} })

\* FileManager::write_file
write_file(s, fd, buffer) ==
  IF ~get_file_descriptor(s, fd) THEN [ret |-> -1, s |-> s]
  ELSE IF "WRITE" \notin s.fdt[fd].mode \/ ~get_inode_position(s.fdt[fd].inode_num)
  THEN [ret |-> -1, s |-> s]
  ELSE IF AdditionalBlocks(s.it[s.fdt[fd].inode_num], s.fdt[fd], Len(buffer)) <= 0
  THEN WriteAt(s, fd, s.fdt[fd], buffer)
  ELSE The({ IF ~a.ok THEN [ret |-> -1, s |-> a.s]
             ELSE WriteAt(a.s, fd, s.fdt[fd], buffer)
             : a \in {allocate_data_blocks(
                        s, s.fdt[fd].inode_num,
                        AdditionalBlocks(s.it[s.fdt[fd].inode_num], s.fdt[fd],
                                         Len(buffer)))} })

\* FileManager::seek_file
seek_file(s, fd, position) ==
  IF ~get_file_descriptor(s, fd) \/ ~get_inode_position(s.fdt[fd].inode_num)
  THEN [ok |-> FALSE, s |-> s]
  ELSE IF position < 0 \/ position > s.it[s.fdt[fd].inode_num].size
  THEN [ok |-> FALSE, s |-> s]
  ELSE [ok |-> TRUE, s |-> [s EXCEPT !.fdt[fd].position = position]]

\* DirectoryManager::list_directory
list_directory(s, path) ==
  The({ IF inode_num = -1 THEN [ok |-> FALSE, list |-> <<>>]
        ELSE read_directory(s, inode_num)
        : inode_num \in {find_inode(s, path)} })

\* ------------------------------------------------------------------ state
\* the file system state the operators above work on
S ==
  [ib |-> inode_bitmap, db |-> data_bitmap, it |-> inode_table, blk |-> disk,
   fdt |-> file_descriptors, nfd |-> next_fd,
   sib |-> saved_inode_bitmap, sdb |-> saved_data_bitmap]

Commit(s) ==
  /\ inode_bitmap' = s.ib
  /\ data_bitmap' = s.db
  /\ saved_inode_bitmap' = s.sib
  /\ saved_data_bitmap' = s.sdb
  /\ inode_table' = s.it
  /\ disk' = s.blk
  /\ file_descriptors' = s.fdt
  /\ next_fd' = s.nfd

\* a freshly created image: zero bitmaps and inode table, zero data region
BlankImage ==
  [ib |-> [i \in InodeNums |-> FALSE], db |-> [i \in DataBits |-> FALSE],
   it |-> [i \in InodeNums |-> ZeroInode], blk |-> [b \in DataBlockNums |-> ZeroBlock],
   fdt |-> <<>>, nfd |-> FirstFd,
   sib |-> [i \in InodeNums |-> FALSE], sdb |-> [i \in DataBits |-> FALSE]]

\* FileSystem::mount of a freshly created image (initialize_after_open)
Mounted == ensure_root_directory(BlankImage).s

\* what the properties look at: the last facade call, its result, and the values
\* seen by the InodeManager calls made inside it.  inode_new is the number its
\* allocate_inode call returned and inode_freed the number its free_inode call
\* released (-1 for none); handed is the set of numbers allocate_inode has
\* returned and free_inode has not released since (inode 0 was handed out by the
\* mount), handed_since_format the same set emptied by every format; reissued
\* tells that the call was handed a number of that set
NoCall ==
  [op |-> "none", ok |-> FALSE, resolves |-> FALSE,
   alloc_called |-> FALSE, alloc_ok |-> FALSE,
   blocks_before |-> <<>>, blocks_new |-> <<>>, blocks_after |-> <<>>,
   db_before |-> Mounted.db, db_after |-> Mounted.db,
   free_called |-> FALSE, freed |-> <<>>,
   created |-> FALSE, opened |-> FALSE, written |-> FALSE, buf |-> <<>>, r |-> <<>>,
   inode_new |-> -1, inode_freed |-> -1,
   handed |-> {0}, handed_since_format |-> {0},
   reissued |-> FALSE, reissued_since_format |-> FALSE]

\* a thread that runs nothing: the command it was given, the path and the
\* descriptor it works on, the facade operation it is at, what it has observed
Idle ==
  [pc |-> "idle", cmd |-> "none", path |-> <<>>, op |-> "none", fd |-> -1,
   dangling |-> FALSE]

\* no thread is followed lock by lock, every lower mutex is free; no process
\* has opened the image; the stand-alone BitmapManager is newly constructed,
\* a byte being the set of its set bits, and the first block of its device is
\* zero while the others have every bit set
AuxInit ==
  /\ lower_mutex = [m \in {"inode_bitmap", "data_bitmap", "disk"} |-> 0]
  /\ callers = [t \in 1..NumCallers |-> [script |-> <<>>, held |-> <<>>, parent |-> 0]]
  /\ host_lock = 0
  /\ command_line = <<>>
  /\ dispatch_mode = "none"
  /\ pool = [tasks |-> <<>>, stop |-> FALSE, accepted |-> 0, rejected |-> 0,
             executed |-> [id \in 1..MaxTasks |-> 0], shutdown |-> "none",
             pending_at_stop |-> 0]
  /\ pool_workers = [w \in 1..NumWorkers |-> [pc |-> "wait", task |-> 0]]
  /\ stress = [pc |-> "idle",
               config |-> [workspace_path |-> <<>>, file_count |-> 0, thread_count |-> 0, write_size |-> 0,
                           cleanup_after |-> FALSE, bucket_count |-> 0],
               stop_flag |-> FALSE,
               operation_counter |-> 0, error_counter |-> 0, monitor |-> "none",
               started |-> FALSE, result |-> FALSE,
               ib_before |-> <<>>, db_before |-> <<>>]
  /\ stress_workers =
       [w \in 0..(StressThreads - 1) |->
          [pc |-> "none", index |-> 0, iteration |-> 0, retry |-> FALSE, fd |-> -1,
           written |-> 0, wbuf |-> <<>>, rbuf |-> <<>>, bytes_read |-> 0,
           disturbed |-> FALSE]]
  /\ bitmap_manager = [bitmap_data |-> [i \in 0..(CeilDiv(BitmapBits, BitsPerByte) - 1) |-> {}],
                       free_bits_count |-> BitmapBits, calls |-> 0,
                       op |-> "none", ok |-> FALSE]
  /\ fmt = [pc |-> "idle", calls |-> 0, list_pc |-> "idle", waited |-> FALSE,
            seen |-> FALSE, changed |-> FALSE, obs |-> [ok |-> FALSE, list |-> <<>>], obs_during |-> "idle",
            pre |-> [ok |-> FALSE, list |-> <<>>]]
  /\ fd_calls = [calls |-> 0, ret |-> -1]
  /\ um = [pc |-> "idle", mounted |-> TRUE, disk_open |-> TRUE,
           op |-> "none", op_pc |-> "idle", op_ok |-> TRUE, op_err |-> "none",
           calls |-> 0]
  /\ block_io = [total_blocks |-> TotalBlocks,
                 image |-> [b \in 0..(TotalBlocks - 1) |-> 0],
                 op |-> "none", block |-> 0, ok |-> TRUE, errors |-> {}, calls |-> 0]
  /\ inode_dev = [blocks |-> [b \in 0..(InodeTableBlocks - 1) |-> [j \in 1..BLOCK_SIZE |-> 0]],
                  kept |-> [n \in InodeNums |-> [j \in 1..SizeofInode |-> 0]],
                  calls |-> 0, ok |-> TRUE]
  /\ mnt = [magic |-> MAGIC_NUMBER, op |-> "none", ok |-> TRUE, err |-> "none",
            issued |-> {}, stale |-> {}, calls |-> 0]
  /\ bitmap_disk = [b \in 0..(BitmapDeviceBlocks - 1) |->
                      [i \in 0..(BLOCK_SIZE - 1) |->
                         IF b = 0 THEN {} ELSE 0..(BitsPerByte - 1)]]
  /\ procs = [p \in 1..NumProcs |->
                [pc |-> "closed", disk_file |-> FALSE, lock_acquired |-> FALSE,
                 disk_open |-> FALSE, mounted |-> FALSE, sessions |-> 0]]

Init ==
  /\ inode_bitmap = Mounted.ib
  /\ data_bitmap = Mounted.db
  /\ saved_inode_bitmap = Mounted.sib
  /\ saved_data_bitmap = Mounted.sdb
  /\ inode_table = Mounted.it
  /\ disk = Mounted.blk
  /\ file_descriptors = Mounted.fdt
  /\ next_fd = Mounted.nfd
  /\ last = NoCall
  /\ nops = 0
  /\ fs_mutex = [writer |-> 0, readers |-> {}]
  /\ dispatcher_mutex = [writer |-> 0, readers |-> {}]
  /\ workers = [w \in 1..NumWorkers |-> Idle]
  /\ ntasks = 0
  /\ AuxInit

\* ------------------------------------------------------------------ inputs
OpenModes == {{"READ", "WRITE"}, {"READ"}, {"WRITE", "CREATE"}, {"WRITE", "APPEND"}}
\* buffer lengths: empty, within a block, two direct blocks, into the
\* single-indirect tier, into the double-indirect tier, and into the second
\* inner block of the double-indirect tier
WriteLens ==
  {0, 1, BLOCK_SIZE + 1, BLOCK_SIZE * DIRECT_BLOCKS_COUNT + 1,
   BLOCK_SIZE * (DIRECT_BLOCKS_COUNT + PtrsPerBlock) + 1,
   BLOCK_SIZE * (DIRECT_BLOCKS_COUNT + 2 * PtrsPerBlock) + 1}
\* a buffer of distinct non-zero bytes
Pattern(len) == [i \in 1..len |-> i]
Buffers == {Pattern(len) : len \in WriteLens}
ReadSizes == {1, BLOCK_SIZE + 1, BLOCK_SIZE * (DIRECT_BLOCKS_COUNT + 2 * PtrsPerBlock) + 1}
SeekPositions == {0, 1, BLOCK_SIZE * DIRECT_BLOCKS_COUNT + 1}
Fds == FirstFd .. (FirstFd + MaxOps - 1)

IsRegularFile(s, inode_num) == get_inode_position(inode_num) /\ s.it[inode_num].mode = "file"

\* ------------------------------------------------------------------ facade operations
\* p resolves: file_exists(p) and the parent's listing holds the basename
Resolves(s, path) ==
  /\ file_exists(s, path)
  /\ \E l \in {list_directory(s, get_parent_path(path))} :
       /\ l.ok
       /\ \E i \in 1..Len(l.list) : l.list[i].name = get_basename(path)

\* the numbers handed out and not released, after a call that was handed
\* inode_new and then released inode_freed
HandedAfter(handed, inode_new, inode_freed) ==
  ((handed \cup {inode_new}) \ {inode_freed, -1})

\* the record of a call, with the history carried over from the record prev
\* of the call before
Track(prev, call) ==
  [call EXCEPT
     !.handed = HandedAfter(prev.handed, call.inode_new, call.inode_freed),
     !.handed_since_format =
        HandedAfter(IF call.op = "format" THEN {} ELSE prev.handed_since_format,
                    call.inode_new, call.inode_freed),
     !.reissued = call.inode_new \in prev.handed,
     !.reissued_since_format =
        call.op # "format" /\ call.inode_new \in prev.handed_since_format]

Step(s, call) ==
  /\ nops < MaxOps
  /\ Commit(s)
  /\ last' = Track(last, call)
  /\ nops' = nops + 1
  /\ UNCHANGED <<fs_mutex, dispatcher_mutex, workers, ntasks>>
  /\ UNCHANGED aux

Call(op, ok) == [NoCall EXCEPT !.op = op, !.ok = ok]

\* the allocate_inode call of create_file and of create_directory for path
\* in s: the number it returns, -1 when the call is not reached or fails
InodeAllocated(s, path) ==
  IF file_exists(s, path) \/ find_inode(s, get_parent_path(path)) = -1 THEN -1
  ELSE allocate_inode(s).inode_num

\* the free_inode call by which a failed create releases the inode it was
\* handed: after is the state the create leaves
InodeRolledBack(after, inode_new) ==
  IF inode_new # -1 /\ ~is_inode_allocated(after, inode_new) THEN inode_new ELSE -1

\* FileSystem::create_file
CreateFile(path) ==
  \E c \in {create_file(S, path)} :
    Step(c.s, [Call("create_file", c.ret # -1) EXCEPT
                 !.resolves = Resolves(c.s, path),
                 !.inode_new = InodeAllocated(S, path),
                 !.inode_freed = InodeRolledBack(c.s, InodeAllocated(S, path))])

\* FileSystem::create_directory
CreateDirectory(path) ==
  \E c \in {create_directory(S, path)} :
    Step(c.s, [Call("create_directory", c.ok) EXCEPT
                 !.resolves = Resolves(c.s, path),
                 !.inode_new = InodeAllocated(S, path),
                 !.inode_freed = InodeRolledBack(c.s, InodeAllocated(S, path))])

\* what the free_data_blocks call on inode_num has to release in s: the blocks
\* get_data_blocks names, then the two indirection blocks
BlocksToFree(s, inode_num) ==
  get_data_blocks(s, inode_num).list
    \o (IF s.it[inode_num].indirect_block # -1
        THEN <<s.it[inode_num].indirect_block>> ELSE <<>>)
    \o (IF s.it[inode_num].double_indirect_block # -1
        THEN <<s.it[inode_num].double_indirect_block>> ELSE <<>>)

\* FileSystem::delete_file; a successful call has released the inode found for
\* the path, its free_data_blocks call is recorded
DeleteFile(path) ==
  \E d \in {delete_file(S, path)} :
    Step(d.s, IF d.ok
              THEN [Call("delete_file", TRUE) EXCEPT
                      !.inode_freed = find_inode(S, path),
                      !.free_called = TRUE,
                      !.freed = BlocksToFree(S, find_inode(S, path)),
                      !.db_after = d.s.db]
              ELSE Call("delete_file", FALSE))

\* FileSystem::remove_directory
RemoveDirectory(path) ==
  \E d \in {remove_directory(S, path)} :
    Step(d.s, [Call("remove_directory", d.ok) EXCEPT
                 !.inode_freed = IF d.ok THEN find_inode(S, path) ELSE -1])

\* FileSystem::open_file, on a path that names a regular file or nothing
OpenFile(path, mode) ==
  /\ \E found \in {find_inode(S, path)} : found = -1 \/ IsRegularFile(S, found)
  /\ \E o \in {open_file(S, path, mode)} : Step(o.s, Call("open_file", o.ret # -1))

\* FileSystem::close_file
CloseFile(fd) ==
  \E c \in {close_file(S, fd)} : Step(c.s, Call("close_file", c.ok))

\* FileSystem::read_file, on a descriptor of a regular file or on no descriptor
ReadFile(fd, size) ==
  /\ fd \in DOMAIN file_descriptors => IsRegularFile(S, file_descriptors[fd].inode_num)
  /\ \E r \in {read_file(S, fd, size)} : Step(r.s, Call("read_file", r.ret # -1))

\* the allocate_data_blocks call of write_file, recorded: the block list of
\* the inode before and after, the blocks reserved, the bitmap before and after
AllocRecord(s, inode_num, block_count, call) ==
  The({ [call EXCEPT !.alloc_called = TRUE,
                     !.alloc_ok = a.ok,
                     !.blocks_before = get_data_blocks(s, inode_num).list,
                     !.blocks_new = a.list,
                     !.blocks_after = get_data_blocks(a.s, inode_num).list,
                     !.db_before = s.db,
                     !.db_after = a.s.db]
        : a \in {allocate_data_blocks(s, inode_num, block_count)} })

\* write_file reaches allocate_data_blocks: the descriptor is open for writing
\* and the write needs blocks beyond those of the file's size
WriteAllocates(s, fd, buffer) ==
  /\ get_file_descriptor(s, fd)
  /\ "WRITE" \in s.fdt[fd].mode
  /\ get_inode_position(s.fdt[fd].inode_num)
  /\ AdditionalBlocks(s.it[s.fdt[fd].inode_num], s.fdt[fd], Len(buffer)) > 0

\* FileSystem::write_file, on a descriptor of a regular file or on no descriptor
WriteFile(fd, buffer) ==
  /\ fd \in DOMAIN file_descriptors => IsRegularFile(S, file_descriptors[fd].inode_num)
  /\ \E w \in {write_file(S, fd, buffer)} :
       Step(w.s,
            IF WriteAllocates(S, fd, buffer)
            THEN AllocRecord(S, file_descriptors[fd].inode_num,
                             AdditionalBlocks(inode_table[file_descriptors[fd].inode_num],
                                              file_descriptors[fd], Len(buffer)),
                             Call("write_file", w.ret # -1))
            ELSE Call("write_file", w.ret # -1))

\* FileSystem::seek_file
SeekFile(fd, position) ==
  \E k \in {seek_file(S, fd, position)} : Step(k.s, Call("seek_file", k.ok))

\* FileSystem::list_directory
ListDirectory(path) ==
  \E l \in {list_directory(S, path)} : Step(S, Call("list_directory", l.ok))

\* FileSystem::format, with no descriptor open
Format ==
  /\ DOMAIN file_descriptors = {}
  /\ \E f \in {format(S)} :
       Step(f.s, [Call("format", f.ok) EXCEPT
                    !.inode_new = allocate_inode(format_disk(S)).inode_num])

\* the round trip of a client on a path that names nothing yet:
\* create_file, open_file, write_file, seek_file, read_file, close_file
RoundTrip(path, buffer) ==
  /\ find_inode(S, path) = -1
  /\ \E c \in {create_file(S, path)} :
     \E o \in {open_file(c.s, path, {"READ", "WRITE"})} :
     \E w \in {write_file(o.s, o.ret, buffer)} :
     \E k \in {seek_file(w.s, o.ret, 0)} :
     \E r \in {read_file(k.s, o.ret, Len(buffer))} :
     \E cl \in {close_file(r.s, o.ret)} :
       Step(cl.s, [Call("round_trip", cl.ok) EXCEPT
                     !.inode_new = InodeAllocated(S, path),
                     !.inode_freed = InodeRolledBack(c.s, InodeAllocated(S, path)),
                     !.created = c.ret # -1,
                     !.opened = o.ret # -1,
                     !.written = (w.ret = Len(buffer)),
                     !.buf = buffer,
                     !.r = r.data])

Next ==
  \/ \E path \in Paths : CreateFile(path)
  \/ \E path \in Paths : CreateDirectory(path)
  \/ \E path \in Paths : DeleteFile(path)
  \/ \E path \in Paths : RemoveDirectory(path)
  \/ \E path \in Paths, mode \in OpenModes : OpenFile(path, mode)
  \/ \E fd \in Fds : CloseFile(fd)
  \/ \E fd \in Fds, size \in ReadSizes : ReadFile(fd, size)
  \/ \E fd \in Fds, buffer \in Buffers : WriteFile(fd, buffer)
  \/ \E fd \in Fds, position \in SeekPositions : SeekFile(fd, position)
  \/ \E path \in Paths : ListDirectory(path)
  \/ Format
  \/ \E path \in Paths, buffer \in Buffers : RoundTrip(path, buffer)

Spec == Init /\ [][Next]_vars

\* ------------------------------------------------------------------ properties
\* the block numbers inode_num refers to: direct pointers, the single-indirect
\* block and its entries, the double-indirect block, the inner blocks it names
\* and their entries
RefsOf(s, inode_num) ==
  SelectNonZero(s.it[inode_num].direct_blocks)
    \o (IF s.it[inode_num].indirect_block # -1
        THEN <<s.it[inode_num].indirect_block>>
               \o read_indirect_block(s, s.it[inode_num].indirect_block).list
        ELSE <<>>)
    \o (IF s.it[inode_num].double_indirect_block # -1
        THEN <<s.it[inode_num].double_indirect_block>>
               \o read_indirect_block(s, s.it[inode_num].double_indirect_block).list
               \o ReadInner(s, read_indirect_block(
                                 s, s.it[inode_num].double_indirect_block).list).list
        ELSE <<>>)

\* how many references the allocated inodes hold to block_num
RefCount(s, refs, block_num) ==
  Cardinality({p \in InodeNums \X (1..(3 * DataBlocks)) :
                 /\ is_inode_allocated(s, p[1])
                 /\ p[2] <= Len(refs[p[1]])
                 /\ refs[p[1]][p[2]] = block_num})

\* every set data bit has exactly one reference, every clear one has none
DataBitmapExact ==
  \E refs \in {[n \in InodeNums |-> RefsOf(S, n)]} :
    \A bit \in DataBits :
      RefCount(S, refs, DataStart + bit) = (IF data_bitmap[bit] THEN 1 ELSE 0)

\* the allocated directories and their entries
LiveDirectories == {n \in InodeNums : is_inode_allocated(S, n) /\ inode_table[n].mode = "dir"}
EntriesOf(n) == read_directory(S, n).list

\* how many entries other than "." and ".." name inode_num
NameCount(listing, inode_num) ==
  Cardinality({p \in LiveDirectories \X (1..(2 * EntriesPerBlock + 1)) :
                 /\ p[2] <= Len(listing[p[1]])
                 /\ listing[p[1]][p[2]].inode_number = inode_num
                 /\ listing[p[1]][p[2]].name \notin {".", ".."}})

\* every inode but the root is allocated exactly when one entry names it
InodeBitmapExact ==
  \E listing \in {[n \in LiveDirectories |-> EntriesOf(n)]} :
    \A n \in InodeNums \ {0} :
      NameCount(listing, n) = (IF inode_bitmap[n] THEN 1 ELSE 0)

\* C1: in every state reached through facade operations a bitmap bit is set
\* exactly when its block or inode has exactly one owner: no block is referenced
\* twice, no set bit is without an owner.
C1_BitmapOwnership == DataBitmapExact /\ InodeBitmapExact

\* C2: after any sequence of create_file, create_directory, delete_file and
\* remove_directory calls every named directory entry names an allocated inode.
C2_EntriesNameAllocatedInodes ==
  \A n \in LiveDirectories :
    \A i \in 1..Len(EntriesOf(n)) : is_inode_allocated(S, EntriesOf(n)[i].inode_number)

\* the root directory is in place: inode 0 is allocated, is a directory, and
\* holds "." and ".."
RootIntact ==
  /\ is_inode_allocated(S, 0)
  /\ inode_table[0].mode = "dir"
  /\ \A name \in {".", ".."} : find_entry_index(EntriesOf(0), name) # 0

\* C3: inode 0 is always the allocated root directory; no remove_directory or
\* delete_file call frees it or removes its "." and ".." entries.
C3_RootNeverRemoved == RootIntact

\* C4: whenever create_file(p) or create_directory(p) returns success, p
\* resolves afterwards, however many entries the parent already holds.
C4_CreatedPathResolves ==
  (last.op \in {"create_file", "create_directory"} /\ last.ok) => last.resolves

\* C5: create_file(p), open(p, READ|WRITE), write(buf), seek(0), read(|buf|),
\* close on a newly created file: the file opens, and the bytes read are
\* exactly the buffer the write accepted.
C5_RoundTripYieldsBuffer ==
  (last.op = "round_trip" /\ last.created) =>
    (last.opened /\ (last.written => last.r = last.buf))

\* C6: when allocate_data_blocks succeeds, get_data_blocks afterwards is the
\* list from before the call followed by the newly reserved blocks, in order.
C6_AllocateAppends ==
  (last.alloc_called /\ last.alloc_ok) =>
    last.blocks_after = last.blocks_before \o last.blocks_new

\* C7: free_data_blocks clears the data-bitmap bit of every block
\* get_data_blocks returned for the inode, and of its two indirection blocks.
C7_FreeReleasesEveryBlock ==
  last.free_called =>
    \A i \in 1..Len(last.freed) : ~is_allocated(last.db_after, last.freed[i] - DataStart)

\* C8: when allocate_data_blocks fails, the data bitmap is what it was before
\* the call.
C8_FailedAllocateRestoresBitmap ==
  (last.alloc_called /\ ~last.alloc_ok) => last.db_after = last.db_before

\* ------------------------------------------------------------------ locks
\* a std::shared_mutex: writer holds the exclusive side (0: nobody), readers
\* hold the shared side. Each operator gives whether the lock can be taken now
\* and the mutex once thread w has taken it.
shared_lock(m, w) ==
  [free |-> m.writer = 0, m |-> [m EXCEPT !.readers = @ \cup {w}]]

\* an exclusive lock granted while readers hold the mutex
unique_lock_over_readers(m, w) ==
  [free |-> m.writer = 0, m |-> [m EXCEPT !.writer = w]]
unique_lock(m, w) ==
  [free |-> m.writer = 0 /\ m.readers = {}, m |-> [m EXCEPT !.writer = w]]

\* the destructor of either guard
unlock(m, w) ==
  [writer |-> IF m.writer = w THEN 0 ELSE m.writer, readers |-> m.readers \ {w}]

\* FileSystem::acquire_shared_lock
acquire_shared_lock(m, w) == shared_lock(m, w)

\* an exclusive guard that lets other holders in
acquire_unique_lock_shared(m, w) == shared_lock(m, w)
\* FileSystem::acquire_unique_lock
acquire_unique_lock(m, w) == unique_lock(m, w)

\* the facade operations whose first statement is acquire_shared_lock(); every
\* other facade operation starts with acquire_unique_lock()
SharedGuarded ==
  {"is_mounted", "file_exists", "list_directory", "get_disk_info", "is_directory",
   "find_inode"}
UniqueGuarded ==
  {"format", "create_file", "delete_file", "open_file", "close_file", "read_file",
   "write_file", "seek_file", "create_directory", "remove_directory"}

\* the guard a facade operation takes on fs_mutex_
guard(op, m, w) ==
  IF op \in SharedGuarded THEN acquire_shared_lock(m, w) ELSE acquire_unique_lock(m, w)

\* ------------------------------------------------------------------ facade calls of a thread
\* the size cmd_cat reads at a time
CatChunk == 1023
\* the text of an echo command, the buffer of a direct write_file call
Text == Pattern(1)

\* the mode a thread opens its path with
OpenMode(cmd) ==
  IF cmd = "cat" THEN {"READ"}
  ELSE IF cmd = "echo" THEN {"WRITE", "CREATE"} ELSE {"READ", "WRITE"}

\* FileSystem::is_directory
is_directory(s, path) ==
  \E inode_num \in {find_inode(s, path)} :
    /\ inode_num # -1
    /\ get_inode_position(inode_num)
    /\ s.it[inode_num].mode = "dir"

\* a listing names an inode whose inode-bitmap bit is clear
NamesFreeInode(s, list) ==
  \E i \in 1..Len(list) : ~is_inode_allocated(s, list[i].inode_number)

Result(s, ok, fd, n, dangling) ==
  [s |-> s, ok |-> ok, fd |-> fd, n |-> n, dangling |-> dangling]

\* the body of the facade operation thread record t is at, run on s: the state
\* it leaves, its success, the descriptor the thread holds afterwards, the
\* bytes moved, and whether an entry it went through names a free inode
Facade(s, t) ==
  CASE t.op = "is_mounted" -> Result(s, TRUE, t.fd, 0, FALSE)
    [] t.op = "get_disk_info" -> Result(s, TRUE, t.fd, 0, FALSE)
    [] t.op = "file_exists" ->
         The({ Result(s, found # -1, t.fd, 0,
                      found # -1 /\ t.path # <<>> /\ ~is_inode_allocated(s, found))
               : found \in {find_inode(s, t.path)} })
    [] t.op = "find_inode" ->
         The({ Result(s, found # -1, t.fd, 0,
                      found # -1 /\ t.path # <<>> /\ ~is_inode_allocated(s, found))
               : found \in {find_inode(s, t.path)} })
    [] t.op = "is_directory" -> Result(s, is_directory(s, t.path), t.fd, 0, FALSE)
    [] t.op = "list_directory" ->
         The({ Result(s, l.ok, t.fd, 0, l.ok /\ NamesFreeInode(s, l.list))
               : l \in {list_directory(s, t.path)} })
    [] t.op = "format" -> The({ Result(f.s, f.ok, t.fd, 0, FALSE) : f \in {format(s)} })
    [] t.op = "create_file" ->
         The({ Result(c.s, c.ret # -1, t.fd, 0, FALSE) : c \in {create_file(s, t.path)} })
    [] t.op = "create_directory" ->
         The({ Result(c.s, c.ok, t.fd, 0, FALSE) : c \in {create_directory(s, t.path)} })
    [] t.op = "delete_file" ->
         The({ Result(d.s, d.ok, t.fd, 0, FALSE) : d \in {delete_file(s, t.path)} })
    [] t.op = "remove_directory" ->
         The({ Result(d.s, d.ok, t.fd, 0, FALSE) : d \in {remove_directory(s, t.path)} })
    [] t.op = "open_file" ->
         The({ Result(o.s, o.ret # -1, o.ret, 0, FALSE)
               : o \in {open_file(s, t.path, OpenMode(t.cmd))} })
    [] t.op = "close_file" ->
         The({ Result(c.s, c.ok, -1, 0, FALSE) : c \in {close_file(s, t.fd)} })
    [] t.op = "read_file" ->
         The({ Result(r.s, r.ret # -1, t.fd, r.ret, FALSE)
               : r \in {read_file(s, t.fd, CatChunk)} })
    [] t.op = "write_file" ->
         The({ Result(w.s, w.ret # -1, t.fd, w.ret, FALSE)
               : w \in {write_file(s, t.fd, Text)} })
    [] t.op = "seek_file" ->
         The({ Result(k.s, k.ok, t.fd, 0, FALSE) : k \in {seek_file(s, t.fd, 0)} })

\* ------------------------------------------------------------------ commands
Commands == {"ls", "cat", "info", "mkdir", "touch", "rm", "echo", "format"}
CommandPaths == {<<>>, <<"a">>, <<"a", ".">>}

\* TaskDispatcher::resolve_mode
resolve_mode(cmd) == IF cmd \in {"ls", "cat", "info"} THEN "Shared" ELSE "Exclusive"

\* the first facade call of a command (CLIInterface::cmd_*)
FirstOp(cmd) ==
  CASE cmd = "ls" -> "list_directory"
    [] cmd = "info" -> "get_disk_info"
    [] cmd = "format" -> "format"
    [] cmd = "mkdir" -> "create_directory"
    [] cmd = "touch" -> "create_file"
    [] cmd = "rm" -> "delete_file"
    [] cmd = "cat" -> "file_exists"
    [] cmd = "echo" -> "open_file"

\* the facade call a command makes after op returned f, "none" at its end
NextOp(cmd, op, f) ==
  CASE cmd = "rm" /\ op = "delete_file" /\ ~f.ok -> "remove_directory"
    [] cmd = "cat" /\ op = "file_exists" /\ f.ok -> "open_file"
    [] cmd = "cat" /\ op = "open_file" /\ f.ok -> "read_file"
    [] cmd = "cat" /\ op = "read_file" -> IF f.n > 0 THEN "read_file" ELSE "close_file"
    [] cmd = "echo" /\ op = "open_file" /\ f.ok -> "write_file"
    [] cmd = "echo" /\ op = "write_file" -> "close_file"
    [] OTHER -> "none"

\* ------------------------------------------------------------------ threads
\* TaskDispatcher::execute_async / execute_sync: a command is handed to a thread
Dispatch(w, cmd, path) ==
  /\ ntasks < MaxTasks
  /\ workers[w].pc = "idle"
  /\ workers' = [workers EXCEPT ![w] = [Idle EXCEPT !.pc = "queued", !.cmd = cmd,
                                                    !.path = path]]
  /\ ntasks' = ntasks + 1
  /\ UNCHANGED <<inode_bitmap, data_bitmap, saved_inode_bitmap, saved_data_bitmap, inode_table, disk, file_descriptors, next_fd,
                 last, nops, fs_mutex, dispatcher_mutex>>
  /\ UNCHANGED aux

\* the task takes dispatcher_mutex_ on the side resolve_mode gave; an echo is
\* followed on a path that names a regular file or nothing
LockDispatcher(w) ==
  /\ workers[w].pc = "queued"
  /\ workers[w].cmd = "echo" =>
       \E found \in {find_inode(S, workers[w].path)} : found = -1 \/ IsRegularFile(S, found)
  /\ \E l \in {IF resolve_mode(workers[w].cmd) = "Shared"
               THEN shared_lock(dispatcher_mutex, w)
               ELSE unique_lock(dispatcher_mutex, w)} :
       /\ l.free
       /\ dispatcher_mutex' = l.m
  /\ workers' = [workers EXCEPT ![w].pc = "call", ![w].op = FirstOp(workers[w].cmd)]
  /\ UNCHANGED <<inode_bitmap, data_bitmap, saved_inode_bitmap, saved_data_bitmap, inode_table, disk, file_descriptors, next_fd,
                 last, nops, fs_mutex, ntasks>>
  /\ UNCHANGED aux

\* TaskWrapper::execute_command_line has returned: the task's lock is released
Finish(w) ==
  /\ workers[w].pc = "done"
  /\ dispatcher_mutex' = unlock(dispatcher_mutex, w)
  /\ workers' = [workers EXCEPT ![w].pc = "idle"]
  /\ UNCHANGED <<inode_bitmap, data_bitmap, saved_inode_bitmap, saved_data_bitmap, inode_table, disk, file_descriptors, next_fd,
                 last, nops, fs_mutex, ntasks>>
  /\ UNCHANGED aux

\* a thread enters a facade operation: the first statement, the guard on
\* fs_mutex_. A format is followed with no descriptor open, a direct open_file
\* on a path that names a regular file or nothing, a direct read_file or
\* write_file on a descriptor of a regular file or on no descriptor.
Acquire(w) ==
  /\ workers[w].pc = "call"
  /\ workers[w].op = "format" => DOMAIN file_descriptors = {}
  /\ (workers[w].cmd = "direct" /\ workers[w].op = "open_file") =>
       \E found \in {find_inode(S, workers[w].path)} : found = -1 \/ IsRegularFile(S, found)
  /\ (workers[w].cmd = "direct" /\ workers[w].op \in {"read_file", "write_file"}
        /\ workers[w].fd \in DOMAIN file_descriptors) =>
       IsRegularFile(S, file_descriptors[workers[w].fd].inode_num)
  /\ \E g \in {guard(workers[w].op, fs_mutex, w)} :
       /\ g.free
       /\ fs_mutex' = g.m
  /\ workers' = [workers EXCEPT ![w].pc = "in"]
  /\ UNCHANGED <<inode_bitmap, data_bitmap, saved_inode_bitmap, saved_data_bitmap, inode_table, disk, file_descriptors, next_fd,
                 last, nops, dispatcher_mutex, ntasks>>
  /\ UNCHANGED aux

\* the body of the facade operation runs and the guard is destroyed; the
\* command goes on to its next call, or ends
Return(w) ==
  /\ workers[w].pc = "in"
  /\ \E f \in {Facade(S, workers[w])} :
     \E op \in {NextOp(workers[w].cmd, workers[w].op, f)} :
       /\ Commit(f.s)
       /\ workers' = [workers EXCEPT
                        ![w].pc = IF op # "none" THEN "call"
                                  ELSE IF workers[w].cmd = "direct" THEN "idle" ELSE "done",
                        ![w].op = op,
                        ![w].fd = f.fd,
                        ![w].dangling = workers[w].dangling \/ f.dangling]
  /\ fs_mutex' = unlock(fs_mutex, w)
  /\ UNCHANGED <<last, nops, dispatcher_mutex, ntasks>>
  /\ UNCHANGED aux

NextDispatch ==
  \/ \E w \in 1..NumWorkers, cmd \in Commands, path \in CommandPaths : Dispatch(w, cmd, path)
  \/ \E w \in 1..NumWorkers : LockDispatcher(w)
  \/ \E w \in 1..NumWorkers : Acquire(w)
  \/ \E w \in 1..NumWorkers : Return(w)
  \/ \E w \in 1..NumWorkers : Finish(w)

\* commands run through the dispatcher
SpecDispatch == Init /\ [][NextDispatch]_vars

\* C9: concurrent ls, cat and info commands run through the dispatcher,
\* interleaved with dispatched mutating commands, never observe a directory
\* entry whose inode number refers to a free inode-bitmap bit.
C9_ReadersNeverSeeFreeInode ==
  \A w \in 1..NumWorkers :
    workers[w].cmd \in {"ls", "cat", "info"} => ~workers[w].dangling

\* ------------------------------------------------------------------ direct callers
FacadePaths == {<<>>, <<"a">>}
PathOps ==
  {"file_exists", "list_directory", "is_directory", "find_inode", "create_file",
   "delete_file", "open_file", "create_directory", "remove_directory"}
FacadeOps == SharedGuarded \cup UniqueGuarded

\* a thread calls a facade operation of the FileSystem object itself; the
\* descriptor operations are called on the first descriptor number
Invoke(w, op, path) ==
  /\ ntasks < MaxCalls
  /\ workers[w].pc = "idle"
  /\ op \notin PathOps => path = <<>>
  /\ workers' = [workers EXCEPT ![w] = [Idle EXCEPT !.pc = "call", !.cmd = "direct",
                                                    !.op = op, !.path = path,
                                                    !.fd = FirstFd]]
  /\ ntasks' = ntasks + 1
  /\ UNCHANGED <<inode_bitmap, data_bitmap, saved_inode_bitmap, saved_data_bitmap, inode_table, disk, file_descriptors, next_fd,
                 last, nops, fs_mutex, dispatcher_mutex>>
  /\ UNCHANGED aux

NextFacade ==
  \/ \E w \in 1..NumWorkers, op \in FacadeOps, path \in FacadePaths : Invoke(w, op, path)
  \/ \E w \in 1..NumWorkers : Acquire(w)
  \/ \E w \in 1..NumWorkers : Return(w)

\* threads calling the facade concurrently
SpecFacade == Init /\ [][NextFacade]_vars

\* the two sides of the facade as the specification lists them
ExclusiveSide ==
  {"create_file", "write_file", "delete_file", "format", "seek_file", "open_file",
   "close_file", "create_directory", "remove_directory"}
SharedSide ==
  {"file_exists", "is_directory", "list_directory", "get_disk_info", "is_mounted",
   "find_inode"}

\* thread w is inside a facade operation
Inside(w) == workers[w].pc = "in"

Acq(m) == [e |-> "lock", m |-> m]
AcqShared(m) == [e |-> "lock_shared", m |-> m]
Rel(m) == [e |-> "unlock", m |-> m]
Join == [e |-> "join", m |-> "none"]

\* DiskSimulator::read_block, write_block: disk_mutex_ around the transfer
read_block_locks == <<Acq("disk"), Rel("disk")>>
write_block_locks == <<Acq("disk"), Rel("disk")>>

\* BitmapManager::allocate_bit, free_bit, is_allocated, get_free_bits:
\* bitmap_mutex_ of that bitmap around calls of unlocked private helpers
allocate_bit_locks(b) == <<Acq(b), Rel(b)>>
free_bit_locks(b) == <<Acq(b), Rel(b)>>
is_allocated_locks(b) == <<Acq(b), Rel(b)>>
get_free_bits_locks(b) == <<Acq(b), Rel(b)>>

\* BitmapManager::load_from_disk: the bitmap's mutex is held over the block read
load_from_disk_locks(b) == <<Acq(b)>> \o read_block_locks \o <<Rel(b)>>

\* save_to_disk taking the device mutex first and the bitmap's mutex inside it
save_to_disk_device_first(b) == <<Acq("disk"), Acq(b), Rel(b), Rel("disk")>>
\* BitmapManager::save_to_disk: the bitmap's mutex is held over the block write
save_to_disk_locks(b) == <<Acq(b)>> \o write_block_locks \o <<Rel(b)>>

\* InodeManager: inode_mutex_ and bitmap_mutex_ of the manager are declared
\* and locked nowhere; its calls take the bitmaps' and the device's mutexes
read_inode_locks == read_block_locks
write_inode_locks == read_block_locks \o write_block_locks
load_bitmaps_locks == load_from_disk_locks("inode_bitmap") \o load_from_disk_locks("data_bitmap")
allocate_inode_locks ==
  allocate_bit_locks("inode_bitmap") \o write_inode_locks \o save_to_disk_locks("inode_bitmap")
allocate_data_blocks_locks ==
  allocate_bit_locks("data_bitmap") \o read_inode_locks \o write_inode_locks
    \o save_to_disk_locks("data_bitmap")
free_data_blocks_locks ==
  read_inode_locks \o free_bit_locks("data_bitmap") \o write_inode_locks
    \o save_to_disk_locks("data_bitmap")
free_inode_locks ==
  is_allocated_locks("inode_bitmap") \o free_data_blocks_locks
    \o free_bit_locks("inode_bitmap") \o save_to_disk_locks("inode_bitmap")

\* DirectoryManager: a directory is read through its inode and blocks, an
\* entry is added by growing the directory by a block when it is full
read_directory_locks == read_inode_locks \o read_block_locks
add_directory_entry_locks ==
  read_directory_locks \o allocate_data_blocks_locks \o write_block_locks \o write_inode_locks
remove_directory_entry_locks == read_directory_locks \o write_block_locks \o write_inode_locks

\* the body of a facade operation, between taking and dropping fs_mutex_
BodyLocks(op) ==
  CASE op = "format" ->
         write_block_locks \o read_block_locks \o load_bitmaps_locks
           \o is_allocated_locks("inode_bitmap") \o allocate_inode_locks
           \o allocate_data_blocks_locks \o write_block_locks \o write_inode_locks
    [] op = "create_file" ->
         read_directory_locks \o allocate_inode_locks \o read_inode_locks
           \o write_inode_locks \o add_directory_entry_locks
    [] op = "delete_file" ->
         read_directory_locks \o read_inode_locks \o remove_directory_entry_locks
           \o free_inode_locks
    [] op = "list_directory" -> read_directory_locks \o read_inode_locks
    [] op = "get_disk_info" ->
         get_free_bits_locks("data_bitmap") \o get_free_bits_locks("inode_bitmap")
    [] OTHER -> <<>>

\* a facade operation: its guard on fs_mutex_ is its first statement and
\* lives until it returns
FacadeLocks(op) ==
  <<IF op \in SharedGuarded THEN AcqShared("fs") ELSE Acq("fs")>>
    \o BodyLocks(op) \o <<Rel("fs")>>

LockCommands == {"info", "touch", "format", "stress"}
LockOps == {"list_directory", "delete_file"}

\* the facade calls of a command; cmd_stress starts the harness's threads
\* and joins them
CommandLocks(cmd) ==
  CASE cmd = "info" -> FacadeLocks("get_disk_info")
    [] cmd = "touch" -> FacadeLocks("create_file")
    [] cmd = "format" -> FacadeLocks("format")
    [] cmd = "stress" -> <<Join>>

\* the task of TaskDispatcher::execute_async: dispatcher_mutex_ in the
\* command's mode around the whole command
TaskLocks(cmd) ==
  <<IF resolve_mode(cmd) = "Shared" THEN AcqShared("dispatcher") ELSE Acq("dispatcher")>>
    \o CommandLocks(cmd) \o <<Rel("dispatcher")>>

IdleCaller == [script |-> <<>>, held |-> <<>>, parent |-> 0]
Busy == {t \in 1..NumCallers : callers[t].script # <<>>}
Event(t) == Head(callers[t].script)

\* the event thread t is at does not block
CanStep(t) ==
  CASE Event(t).e = "unlock" -> TRUE
    [] Event(t).e = "join" -> \A u \in 1..NumCallers : callers[u].parent # t
    [] Event(t).m = "dispatcher" ->
         IF Event(t).e = "lock" THEN unique_lock(dispatcher_mutex, t).free
         ELSE shared_lock(dispatcher_mutex, t).free
    [] Event(t).m = "fs" ->
         IF Event(t).e = "lock" THEN unique_lock(fs_mutex, t).free
         ELSE shared_lock(fs_mutex, t).free
    [] OTHER -> lower_mutex[Event(t).m] = 0

\* a mutex after thread t's event on it
After(m, t, e) ==
  CASE e = "lock" -> unique_lock(m, t).m
    [] e = "lock_shared" -> shared_lock(m, t).m
    [] e = "unlock" -> unlock(m, t)
    [] OTHER -> m

\* a thread of the pool takes a dispatched command
RunTask(t, cmd) ==
  /\ callers[t].script = <<>>
  /\ callers' = [callers EXCEPT ![t].script = TaskLocks(cmd)]
  /\ UNCHANGED <<inode_bitmap, data_bitmap, saved_inode_bitmap, saved_data_bitmap, inode_table, disk, file_descriptors,
                 next_fd, last, nops, fs_mutex, dispatcher_mutex, workers, ntasks,
                 lower_mutex>>
  /\ UNCHANGED aux_but_lockv

\* a thread calls a facade operation without the dispatcher
CallFacade(t, op) ==
  /\ callers[t].script = <<>>
  /\ callers' = [callers EXCEPT ![t].script = FacadeLocks(op)]
  /\ UNCHANGED <<inode_bitmap, data_bitmap, saved_inode_bitmap, saved_data_bitmap, inode_table, disk, file_descriptors,
                 next_fd, last, nops, fs_mutex, dispatcher_mutex, workers, ntasks,
                 lower_mutex>>
  /\ UNCHANGED aux_but_lockv

\* a worker thread of the stress harness run by thread u calls a facade operation
WorkerCall(t, u, op) ==
  /\ callers[t].script = <<>>
  /\ u \in Busy
  /\ Event(u).e = "join"
  /\ callers' = [callers EXCEPT ![t] = [script |-> FacadeLocks(op), held |-> <<>>, parent |-> u]]
  /\ UNCHANGED <<inode_bitmap, data_bitmap, saved_inode_bitmap, saved_data_bitmap, inode_table, disk, file_descriptors,
                 next_fd, last, nops, fs_mutex, dispatcher_mutex, workers, ntasks,
                 lower_mutex>>
  /\ UNCHANGED aux_but_lockv

\* the held locks after the event
HeldAfter(held, ev) ==
  CASE ev.e \in {"lock", "lock_shared"} -> Append(held, ev.m)
    [] ev.e = "unlock" -> SelectSeq(held, LAMBDA h : h # ev.m)
    [] OTHER -> held

\* thread t performs the event it is at
Advance(t) ==
  /\ t \in Busy
  /\ CanStep(t)
  /\ \E ev \in {Event(t)} :
       /\ dispatcher_mutex' =
            IF ev.m = "dispatcher" THEN After(dispatcher_mutex, t, ev.e) ELSE dispatcher_mutex
       /\ fs_mutex' = IF ev.m = "fs" THEN After(fs_mutex, t, ev.e) ELSE fs_mutex
       /\ lower_mutex' =
            IF ev.m \in DOMAIN lower_mutex
            THEN [lower_mutex EXCEPT ![ev.m] = IF ev.e = "lock" THEN t ELSE 0]
            ELSE lower_mutex
       /\ callers' =
            [callers EXCEPT ![t] =
               IF Len(callers[t].script) = 1 THEN IdleCaller
               ELSE [script |-> Tail(callers[t].script),
                     held |-> HeldAfter(callers[t].held, ev),
                     parent |-> callers[t].parent]]
  /\ UNCHANGED <<inode_bitmap, data_bitmap, saved_inode_bitmap, saved_data_bitmap, inode_table, disk, file_descriptors,
                 next_fd, last, nops, workers, ntasks>>
  /\ UNCHANGED aux_but_lockv

NextLocks ==
  \/ \E t \in 1..NumCallers, cmd \in LockCommands : RunTask(t, cmd)
  \/ \E t \in 1..NumCallers, op \in LockOps : CallFacade(t, op)
  \/ \E t \in 1..NumCallers, u \in 1..NumCallers, op \in LockOps : WorkerCall(t, u, op)
  \/ \E t \in 1..NumCallers : Advance(t)

SpecLocks == Init /\ [][NextLocks]_vars

\* the layers of the lock order
Layer(m) ==
  CASE m = "dispatcher" -> 1
    [] m = "fs" -> 2
    [] m \in {"inode_bitmap", "data_bitmap"} -> 4
    [] m = "disk" -> 5

\* thread t is about to acquire a mutex
Acquiring(t) == t \in Busy /\ Event(t).e \in {"lock", "lock_shared"}

\* C11: a thread that acquires a mutex holds none of a later layer (order:
\* dispatcher lock, facade lock, bitmap mutexes, device mutex) and does not
\* hold that mutex already; and whenever some thread has not finished, some
\* thread can take its next step, so dispatched tasks, stress workers and
\* direct facade callers never deadlock.
C11_LockOrderNoDeadlock ==
  /\ \A t \in 1..NumCallers :
       Acquiring(t) =>
         \A i \in 1..Len(callers[t].held) :
           /\ Layer(callers[t].held[i]) <= Layer(Event(t).m)
           /\ callers[t].held[i] # Event(t).m
  /\ Busy # {} => \E t \in Busy : CanStep(t)

\* a dispatched task holds the dispatcher lock, the facade lock and a bitmap
\* mutex and is about to take the device mutex, while another thread is
\* blocked at a lock
C11_FullChainHeldOtherBlocked ==
  \E t \in Busy, u \in Busy :
    /\ t # u
    /\ callers[t].held = <<"dispatcher", "fs", "inode_bitmap">>
    /\ Acquiring(t) /\ Event(t).m = "disk"
    /\ Acquiring(u) /\ ~CanStep(u)

\* ------------------------------------------------------------------ processes and the image file
\* Each process has its own DiskSimulator and FileSystem over the same host
\* file.  pc is where the process stands in FileSystem::mount: "closed"
\* (not in it), "flock" (fopen done, at the flock call), "init" (lock taken,
\* at initialize_after_open), "mounted".

\* flock(fd, LOCK_EX) granted to any caller
flock_always(lock, p) == [granted |-> TRUE, lock |-> p]
\* flock(fd, LOCK_EX): blocks while another open file description holds the lock
flock_ex(lock, p) == [granted |-> lock = 0, lock |-> p]

\* flock(fd, LOCK_UN) or the close of the locked description
flock_un(lock, p) == IF lock = p THEN 0 ELSE lock

\* a close_disk that leaves the host file open and locked
close_disk_leaving_open(d) == [d EXCEPT !.pc = "closed", !.mounted = FALSE]

\* DiskSimulator::close_disk
close_disk(d) ==
  [d EXCEPT !.pc = "closed", !.disk_file = FALSE, !.lock_acquired = FALSE,
            !.disk_open = FALSE, !.mounted = FALSE]

\* FileSystem::mount up to the flock call of DiskSimulator::open_disk
MountBegin(p) ==
  /\ procs[p].pc = "closed"
  /\ procs[p].sessions < MaxSessions
  /\ ~procs[p].mounted /\ ~procs[p].disk_open
  /\ procs' = [procs EXCEPT ![p].pc = "flock", ![p].disk_file = TRUE]
  /\ UNCHANGED host_lock
  /\ UNCHANGED <<basev, aux_but_procv>>

\* DiskSimulator::open_disk from the return of flock on
OpenDiskLocked(p) ==
  /\ procs[p].pc = "flock"
  /\ \E r \in {flock_ex(host_lock, p)} :
       /\ r.granted
       /\ host_lock' = r.lock
  /\ procs' = [procs EXCEPT ![p].pc = "init", ![p].lock_acquired = TRUE,
                            ![p].disk_open = TRUE, ![p].sessions = @ + 1]
  /\ UNCHANGED <<basev, aux_but_procv>>

\* flock returns an error (interrupted): the file is closed, open_disk fails
OpenDiskFlockFails(p) ==
  /\ procs[p].pc = "flock"
  /\ procs' = [procs EXCEPT ![p].pc = "closed", ![p].disk_file = FALSE]
  /\ UNCHANGED host_lock
  /\ UNCHANGED <<basev, aux_but_procv>>

\* FileSystem::mount after open_disk: initialize_after_open succeeds, or it
\* fails and the disk is closed again
MountEnd(p, ok) ==
  /\ procs[p].pc = "init"
  /\ IF ok
     THEN /\ procs' = [procs EXCEPT ![p].pc = "mounted", ![p].mounted = TRUE]
          /\ UNCHANGED host_lock
     ELSE /\ procs' = [procs EXCEPT ![p] = close_disk(@)]
          /\ host_lock' = flock_un(host_lock, p)
  /\ UNCHANGED <<basev, aux_but_procv>>

\* FileSystem::unmount (also run by the destructor when the process ends)
Unmount(p) ==
  /\ procs[p].mounted
  /\ procs' = [procs EXCEPT ![p] = close_disk(@)]
  /\ host_lock' = flock_un(host_lock, p)
  /\ UNCHANGED <<basev, aux_but_procv>>

NextProcs ==
  \/ \E p \in 1..NumProcs : MountBegin(p)
  \/ \E p \in 1..NumProcs : OpenDiskLocked(p)
  \/ \E p \in 1..NumProcs : OpenDiskFlockFails(p)
  \/ \E p \in 1..NumProcs, ok \in BOOLEAN : MountEnd(p, ok)
  \/ \E p \in 1..NumProcs : Unmount(p)

SpecProcs == Init /\ [][NextProcs]_vars

\* the processes that have the image open
HaveOpen == {p \in 1..NumProcs : procs[p].disk_open}

\* C12: at most one process has the image open at a time; the process that
\* has it open (from open_disk's flock to close_disk) holds the exclusive host
\* lock, a mounted process has it open, and a second mounter stays at its
\* flock call while another process has the image open.
C12_OneProcessHasImageOpen ==
  /\ \A p \in HaveOpen, q \in HaveOpen : p = q
  /\ \A p \in 1..NumProcs :
       /\ procs[p].disk_open => host_lock = p /\ procs[p].lock_acquired
       /\ procs[p].mounted => procs[p].disk_open
       /\ procs[p].pc = "flock" => ~procs[p].disk_open

\* one process has the image mounted, a second is at its flock call, and the
\* mounted process is not the first to have had the image
C12_SecondMounterWaits ==
  \E p \in 1..NumProcs, q \in 1..NumProcs, r \in 1..NumProcs :
    /\ p # q /\ r # p
    /\ procs[p].mounted
    /\ procs[q].pc = "flock"
    /\ procs[r].sessions > 0 /\ ~procs[r].disk_open

\* ------------------------------------------------------------------ dispatched commands
\* worker w runs a dispatched command: its task has taken dispatcher_mutex_
\* and has not returned from TaskWrapper::execute_command_line's caller
Running(w) == workers[w].pc \in {"call", "in", "done"} /\ workers[w].cmd # "direct"

\* worker w holds dispatcher_mutex_ on the side of its command's mode
HoldsDispatcher(w) ==
  IF resolve_mode(workers[w].cmd) = "Shared"
  THEN w \in dispatcher_mutex.readers
  ELSE dispatcher_mutex.writer = w

\* C13: a dispatched command classified Exclusive never runs while another
\* dispatched command runs, a Shared one runs only alongside Shared ones, and
\* a running command holds the dispatcher lock during all of its facade calls.
C13_ExclusiveCommandsRunAlone ==
  /\ \A u \in 1..NumWorkers, v \in 1..NumWorkers :
       (u # v /\ Running(u) /\ Running(v)) =>
         /\ resolve_mode(workers[u].cmd) = "Shared"
         /\ resolve_mode(workers[v].cmd) = "Shared"
  /\ \A w \in 1..NumWorkers : Running(w) => HoldsDispatcher(w)

\* a Shared command is inside a facade call while an Exclusive command is
\* queued behind it
C13_ExclusiveWaitsForShared ==
  \E u \in 1..NumWorkers, v \in 1..NumWorkers :
    /\ u # v
    /\ Running(u) /\ workers[u].pc = "in"
    /\ resolve_mode(workers[u].cmd) = "Shared"
    /\ workers[v].pc = "queued"
    /\ resolve_mode(workers[v].cmd) = "Exclusive"

\* ------------------------------------------------------------------ classifying a command line
\* a command line is the sequence of its characters
npos == -1
\* the delimiters of extract_command_name: " \t\r\n"
Delimiters == {" ", "\t", "\r", "\n"}

\* std::string::find_first_not_of(chars, from) and find_first_of(chars, from),
\* positions counted from 0
find_first_not_of(str, chars, from) ==
  The({ IF hits = {} THEN npos ELSE Min(hits)
        : hits \in {{i \in from .. Len(str) - 1 : str[i + 1] \notin chars}} })
find_first_of(str, chars, from) ==
  The({ IF hits = {} THEN npos ELSE Min(hits)
        : hits \in {{i \in from .. Len(str) - 1 : str[i + 1] \in chars}} })

\* std::string::substr(pos, n)
substr(str, pos, n) == SubSeq(str, pos + 1, Min2(pos + n, Len(str)))

\* the name taken from the first character on, leading delimiters kept
extract_command_name_from_start(line) ==
  The({ IF end = npos THEN line ELSE substr(line, 0, end)
        : end \in {find_first_of(line, Delimiters, 0)} })
\* TaskDispatcher::extract_command_name
extract_command_name(line) ==
  The({ IF start = npos THEN <<>>
        ELSE The({ IF end = npos THEN substr(line, start, Len(line) - start)
                   ELSE substr(line, start, end - start)
                   : end \in {find_first_of(line, Delimiters, start)} })
        : start \in {find_first_not_of(line, Delimiters, 0)} })

\* shared_commands of TaskDispatcher::resolve_mode, as characters
shared_commands == {<<"l", "s">>, <<"c", "a", "t">>, <<"i", "n", "f", "o">>}

\* TaskDispatcher::resolve_mode on a command line
resolve_mode_of_line(line) ==
  The({ IF command = <<>> THEN "Exclusive"
        ELSE IF command \in shared_commands THEN "Shared" ELSE "Exclusive"
        : command \in {extract_command_name(line)} })

\* what is typed: single characters, and the names of commands
TypedChars == Delimiters \cup {"x"}
TypedWords == shared_commands \cup {<<"r", "m">>, <<"L", "S">>}

\* a character is typed
TypeChar(c) ==
  /\ dispatch_mode = "none"
  /\ Len(command_line) < MaxLine
  /\ command_line' = Append(command_line, c)
  /\ UNCHANGED <<dispatch_mode, basev, aux_but_classv>>

\* a command name is typed
TypeWord(w) ==
  /\ dispatch_mode = "none"
  /\ Len(command_line) + Len(w) <= MaxLine
  /\ command_line' = command_line \o w
  /\ UNCHANGED <<dispatch_mode, basev, aux_but_classv>>

\* TaskDispatcher::execute_async, execute_sync: the line is classified
Classify ==
  /\ dispatch_mode = "none"
  /\ dispatch_mode' = resolve_mode_of_line(command_line)
  /\ UNCHANGED <<command_line, basev, aux_but_classv>>

NextClassify ==
  \/ \E c \in TypedChars : TypeChar(c)
  \/ \E w \in TypedWords : TypeWord(w)
  \/ Classify

SpecClassify == Init /\ [][NextClassify]_vars

\* the line is delimiters, then name, then nothing or a delimiter and anything
FirstTokenIs(line, name) ==
  \E k \in 0 .. Len(line) :
    /\ \A i \in 1 .. k : line[i] \in Delimiters
    /\ Len(line) >= k + Len(name)
    /\ SubSeq(line, k + 1, k + Len(name)) = name
    /\ Len(line) > k + Len(name) => line[k + Len(name) + 1] \in Delimiters

worker_returns_on_stop(p) == p.stop
\* the worker's test after its wait: if (stop && tasks.empty()) return
worker_returns(p) == p.stop /\ p.tasks = <<>>

\* ThreadPool::enqueue on a running pool: the task is queued
Enqueue ==
  /\ pool.shutdown = "none"
  /\ ~pool.stop
  /\ pool.accepted < MaxTasks
  /\ pool' = [pool EXCEPT !.accepted = @ + 1, !.tasks = Append(@, pool.accepted + 1)]
  /\ UNCHANGED <<pool_workers, basev, aux_but_poolv>>

\* ThreadPool::enqueue after stop was set: it throws, nothing is queued
EnqueueStopped ==
  /\ pool.stop
  /\ pool.shutdown = "joining"
  /\ pool.rejected < MaxTasks
  /\ pool' = [pool EXCEPT !.rejected = @ + 1]
  /\ UNCHANGED <<pool_workers, basev, aux_but_poolv>>

\* a worker's wait ends with a task in the queue: it pops the front
TakeTask(w) ==
  /\ pool_workers[w].pc = "wait"
  /\ pool.tasks # <<>>
  /\ ~worker_returns(pool)
  /\ pool_workers' = [pool_workers EXCEPT ![w] = [pc |-> "run", task |-> Head(pool.tasks)]]
  /\ pool' = [pool EXCEPT !.tasks = Tail(@)]
  /\ UNCHANGED <<basev, aux_but_poolv>>

\* task(): the packaged task runs; what it throws goes to its future
RunTaskBody(w) ==
  /\ pool_workers[w].pc = "run"
  /\ pool' = [pool EXCEPT !.executed[pool_workers[w].task] = @ + 1]
  /\ pool_workers' = [pool_workers EXCEPT ![w] = [pc |-> "wait", task |-> 0]]
  /\ UNCHANGED <<basev, aux_but_poolv>>

\* a worker's wait ends with stop set: it returns
WorkerExit(w) ==
  /\ pool_workers[w].pc = "wait"
  /\ worker_returns(pool)
  /\ pool_workers' = [pool_workers EXCEPT ![w].pc = "exited"]
  /\ UNCHANGED <<pool, basev, aux_but_poolv>>

\* ThreadPool::~ThreadPool: stop is set under the queue mutex, all are notified
ShutdownBegin ==
  /\ pool.shutdown = "none"
  /\ pool' = [pool EXCEPT !.stop = TRUE, !.shutdown = "joining",
                          !.pending_at_stop = Len(pool.tasks)]
  /\ UNCHANGED <<pool_workers, basev, aux_but_poolv>>

\* ThreadPool::~ThreadPool: every worker has been joined
ShutdownReturn ==
  /\ pool.shutdown = "joining"
  /\ \A w \in 1..NumWorkers : pool_workers[w].pc = "exited"
  /\ pool' = [pool EXCEPT !.shutdown = "returned"]
  /\ UNCHANGED <<pool_workers, basev, aux_but_poolv>>

NextPool ==
  \/ Enqueue
  \/ EnqueueStopped
  \/ \E w \in 1..NumWorkers : TakeTask(w)
  \/ \E w \in 1..NumWorkers : RunTaskBody(w)
  \/ \E w \in 1..NumWorkers : WorkerExit(w)
  \/ ShutdownBegin
  \/ ShutdownReturn

SpecPool == Init /\ [][NextPool]_vars

\* a notified worker is scheduled, a started task returns, the destructor's
\* joins return once the workers have
SpecPoolFair ==
  /\ SpecPool
  /\ \A w \in 1..NumWorkers :
       WF_vars(TakeTask(w)) /\ WF_vars(RunTaskBody(w)) /\ WF_vars(WorkerExit(w))
  /\ WF_vars(ShutdownReturn)

\* no task runs twice, and once shutdown has returned every accepted task
\* has run, the queue is empty and every worker has exited
PoolSafe ==
  /\ \A id \in 1..MaxTasks : pool.executed[id] <= (IF id <= pool.accepted THEN 1 ELSE 0)
  /\ pool.shutdown = "returned" =>
       /\ \A id \in 1..pool.accepted : pool.executed[id] = 1
       /\ pool.tasks = <<>>
       /\ \A w \in 1..NumWorkers : pool_workers[w].pc = "exited"

\* C15: every task enqueue accepted is executed, and exactly once; shutdown
\* returns only after the queue has been drained and every worker has
\* exited, and a shutdown that began does return.
C15_AcceptedTasksRunOnce ==
  /\ []PoolSafe
  /\ \A id \in 1..MaxTasks : (pool.accepted >= id) ~> (pool.executed[id] = 1)
  /\ (pool.shutdown = "joining") ~> (pool.shutdown = "returned")

\* shutdown has returned after tasks that were still queued when it began
\* were run
C15_ShutdownDrainedQueue ==
  /\ pool.shutdown = "returned"
  /\ pool.pending_at_stop >= 2
  /\ pool.rejected > 0
  /\ \A id \in 1..pool.accepted : pool.executed[id] = 1

\* ------------------------------------------------------------------ the stress harness
\* StressTester::run, its worker threads and its monitor thread.  Every facade
\* call of a thread is one step (the facade lock makes it atomic); what a
\* thread does between two facade calls belongs to the step of the call before.
\* std::setw(3) << std::setfill('0') of a number below 1000
Digit(d) ==
  CASE d = 0 -> "0" [] d = 1 -> "1" [] d = 2 -> "2" [] d = 3 -> "3" [] d = 4 -> "4"
    [] d = 5 -> "5" [] d = 6 -> "6" [] d = 7 -> "7" [] d = 8 -> "8" [] d = 9 -> "9"
Pad3(n) == Digit((n \div 100) % 10) \o Digit((n \div 10) % 10) \o Digit(n % 10)

\* the normalisation of the configuration at the head of StressTester::run
NormalizedConfig(workspace_path, file_count, thread_count, write_size, bucket_count, cleanup_after) ==
  [workspace_path |-> workspace_path, file_count |-> file_count, thread_count |-> thread_count, write_size |-> write_size,
   cleanup_after |-> cleanup_after,
   bucket_count |->
     Min2(Max2(IF bucket_count = 0 THEN Max2(thread_count, 1) ELSE bucket_count, 1),
          Max2(file_count, 1))]

\* StressTester::build_bucket_path
build_bucket_path(config, index) ==
  IF config.bucket_count <= 1 THEN config.workspace_path
  ELSE Append(config.workspace_path, "bucket_" \o Pad3(index % config.bucket_count))

\* every worker is given the file of index 0
build_file_path_of_first(config, index) ==
  Append(build_bucket_path(config, 0), "file_" \o Pad3(0) \o ".dat")
\* StressTester::build_file_path
build_file_path(config, index) ==
  Append(build_bucket_path(config, index), "file_" \o Pad3(index) \o ".dat")

\* the loop of StressTester::prepare_workspace from file index on; prepared is
\* the set prepared_directories
RECURSIVE PrepareFiles(_, _, _, _)
PrepareFiles(s, config, index, prepared) ==
  IF index >= config.file_count THEN [ok |-> TRUE, s |-> s]
  ELSE The({
    IF ~b.ok THEN [ok |-> FALSE, s |-> b.s]
    ELSE IF file_exists(b.s, build_file_path(config, index))
    THEN PrepareFiles(b.s, config, index + 1,
                      prepared \cup {build_bucket_path(config, index)})
    ELSE The({ IF c.ret = -1 THEN [ok |-> FALSE, s |-> c.s]
               ELSE PrepareFiles(c.s, config, index + 1,
                                 prepared \cup {build_bucket_path(config, index)})
               : c \in {create_file(b.s, build_file_path(config, index))} })
    : b \in {IF build_bucket_path(config, index) \in prepared
                \/ file_exists(s, build_bucket_path(config, index))
             THEN [ok |-> TRUE, s |-> s]
             ELSE create_directory(s, build_bucket_path(config, index))} })

\* StressTester::prepare_workspace
prepare_workspace(s, config) ==
  The({ IF ~w.ok THEN w ELSE PrepareFiles(w.s, config, 0, {config.workspace_path})
        : w \in {IF file_exists(s, config.workspace_path) THEN [ok |-> TRUE, s |-> s]
                 ELSE create_directory(s, config.workspace_path)} })

\* StressTester::cleanup_directory_recursive; CleanupEntries is its loop over
\* the listing taken at its start
RECURSIVE cleanup_directory_recursive(_, _)
RECURSIVE CleanupEntries(_, _, _)
CleanupEntries(s, path, entries) ==
  IF entries = <<>> THEN s
  ELSE IF Head(entries).name \in {".", ".."} THEN CleanupEntries(s, path, Tail(entries))
  ELSE IF is_directory(s, Append(path, Head(entries).name))
  THEN CleanupEntries(
         remove_directory(
           cleanup_directory_recursive(s, Append(path, Head(entries).name)),
           Append(path, Head(entries).name)).s,
         path, Tail(entries))
  ELSE CleanupEntries(delete_file(s, Append(path, Head(entries).name)).s,
                      path, Tail(entries))
cleanup_directory_recursive(s, path) ==
  The({ IF ~l.ok THEN s ELSE CleanupEntries(s, path, l.list)
        : l \in {list_directory(s, path)} })

\* StressTester::cleanup_workspace
cleanup_workspace(s, config) ==
  remove_directory(cleanup_directory_recursive(s, config.workspace_path),
                   config.workspace_path).s

\* the value run returns whatever was counted
run_result_ignoring_errors(error_counter) == TRUE
\* the value run returns after a run: error_counter.load() == 0
run_result(error_counter) == error_counter = 0

\* a worker that goes on whatever the flag says
worker_continues_regardless(stop_flag) == TRUE
\* the test of worker_loop's while: !stop_flag.load()
worker_continues(stop_flag) == ~stop_flag

\* fill_char and write_buffer of a file iteration ('A' is 65)
fill_char(worker_id, iteration) == 65 + ((worker_id + iteration) % 26)
write_buffer(config, worker_id, iteration) ==
  [i \in 1..config.write_size |-> fill_char(worker_id, iteration)]

\* what a step of a worker gives: the file system, the worker's locals, and
\* what it adds to error_counter and to operation_counter
StepResult(s, wk, err, op) == [s |-> s, wk |-> wk, err |-> err, op |-> op]
\* the continue of the for loop: the next index of this worker
NextFile(wk, config) ==
  [wk EXCEPT !.pc = "for", !.index = @ + config.thread_count, !.retry = FALSE, !.fd = -1]
\* ensure_file_available returned true
Ensured(wk) == [wk EXCEPT !.pc = IF wk.retry THEN "open_again" ELSE "open_write"]

\* one step of StressTester::worker_loop for worker worker_id, whose locals
\* are wk, on the file system s
worker_step(s, config, worker_id, wk, stop_flag) ==
  CASE wk.pc = "while" ->
         StepResult(s, IF worker_continues(stop_flag)
                       THEN [wk EXCEPT !.pc = "for", !.index = worker_id]
                       ELSE [wk EXCEPT !.pc = "exited"], 0, 0)
    \* ++iteration after the for loop; the counter stops at MaxIterations
    [] wk.pc = "for" ->
         StepResult(s, IF wk.index < config.file_count /\ ~stop_flag
                       THEN [wk EXCEPT !.pc = "ensure_parent"]
                       ELSE [wk EXCEPT !.pc = "while",
                                       !.iteration = Min2(@ + 1, MaxIterations)], 0, 0)
    \* ensure_file_available: file_exists(parent), the root always exists
    [] wk.pc = "ensure_parent" ->
         StepResult(s, IF file_exists(s, get_parent_path(build_file_path(config, wk.index)))
                       THEN [wk EXCEPT !.pc = "ensure_exists"]
                       ELSE [wk EXCEPT !.pc = "ensure_mkdir"], 0, 0)
    [] wk.pc = "ensure_mkdir" ->
         StepResult(create_directory(s, get_parent_path(build_file_path(config, wk.index))).s,
                    [wk EXCEPT !.pc = "ensure_exists"], 0, 0)
    [] wk.pc = "ensure_exists" ->
         StepResult(s, IF file_exists(s, build_file_path(config, wk.index))
                       THEN Ensured(wk)
                       ELSE [wk EXCEPT !.pc = "ensure_create"], 0, 0)
    [] wk.pc = "ensure_create" ->
         The({ StepResult(c.s, IF c.ret # -1 THEN Ensured(wk)
                               ELSE [wk EXCEPT !.pc = "ensure_recheck"], 0, 0)
               : c \in {create_file(s, build_file_path(config, wk.index))} })
    [] wk.pc = "ensure_recheck" ->
         IF file_exists(s, build_file_path(config, wk.index))
         THEN StepResult(s, Ensured(wk), 0, 0)
         ELSE StepResult(s, NextFile(wk, config), 1, 0)
    [] wk.pc = "open_write" ->
         The({ StepResult(o.s, IF o.ret = -1
                               THEN [wk EXCEPT !.pc = "ensure_parent", !.retry = TRUE]
                               ELSE [wk EXCEPT !.pc = "seek", !.fd = o.ret], 0, 0)
               : o \in {open_file(s, build_file_path(config, wk.index), {"WRITE"})} })
    [] wk.pc = "open_again" ->
         The({ IF o.ret = -1 THEN StepResult(o.s, NextFile(wk, config), 1, 0)
               ELSE StepResult(o.s, [wk EXCEPT !.pc = "seek", !.fd = o.ret], 0, 0)
               : o \in {open_file(s, build_file_path(config, wk.index), {"WRITE"})} })
    [] wk.pc = "seek" ->
         The({ StepResult(k.s, [wk EXCEPT !.pc = IF k.ok THEN "write" ELSE "close_unsought"],
                          0, 0)
               : k \in {seek_file(s, wk.fd, 0)} })
    [] wk.pc = "close_unsought" ->
         StepResult(close_file(s, wk.fd).s, NextFile(wk, config), 1, 0)
    [] wk.pc = "write" ->
         The({ StepResult(w.s, [wk EXCEPT !.pc = "close_written", !.written = w.ret,
                                          !.wbuf = write_buffer(config, worker_id, wk.iteration),
                                          !.rbuf = <<>>, !.bytes_read = 0,
                                          !.disturbed = FALSE], 0, 0)
               : w \in {write_file(s, wk.fd, write_buffer(config, worker_id, wk.iteration))} })
    [] wk.pc = "close_written" ->
         IF wk.written # config.write_size
         THEN StepResult(close_file(s, wk.fd).s, NextFile(wk, config), 1, 0)
         ELSE StepResult(close_file(s, wk.fd).s, [wk EXCEPT !.pc = "open_read", !.fd = -1],
                         0, 1)
    [] wk.pc = "open_read" ->
         The({ IF o.ret = -1 THEN StepResult(o.s, NextFile(wk, config), 1, 0)
               ELSE StepResult(o.s, [wk EXCEPT !.pc = "read", !.fd = o.ret], 0, 0)
               : o \in {open_file(s, build_file_path(config, wk.index), {"READ"})} })
    [] wk.pc = "read" ->
         The({ StepResult(r.s, [wk EXCEPT !.pc = "close_read", !.bytes_read = r.ret,
                                          !.rbuf = r.data], 0, 0)
               : r \in {read_file(s, wk.fd, wk.written)} })
    \* close_file, then the comparisons of bytes_read and of the buffers
    [] wk.pc = "close_read" ->
         IF wk.bytes_read # wk.written
              \/ wk.rbuf # SubSeq(wk.wbuf, 1, wk.bytes_read)
         THEN StepResult(close_file(s, wk.fd).s, NextFile(wk, config), 1, 0)
         ELSE StepResult(close_file(s, wk.fd).s, NextFile(wk, config), 0, 1)

StressIds == 0 .. (StressThreads - 1)
IdleStressWorker ==
  [pc |-> "none", index |-> 0, iteration |-> 0, retry |-> FALSE, fd |-> -1,
   written |-> 0, wbuf |-> <<>>, rbuf |-> <<>>, bytes_read |-> 0, disturbed |-> FALSE]

\* StressTester::run up to the start of the threads: the configuration is
\* normalised and checked, the workspace prepared, the workers and the
\* monitor started
StartRun(workspace_path, file_count, thread_count, write_size, bucket_count, cleanup_after) ==
  /\ stress.pc = "idle"
  /\ \E config \in {NormalizedConfig(workspace_path, file_count, thread_count, write_size,
                                     bucket_count, cleanup_after)} :
       IF config.file_count = 0 \/ config.thread_count = 0 \/ config.write_size = 0
       THEN /\ stress' = [stress EXCEPT !.pc = "returned", !.config = config,
                                        !.result = FALSE]
            /\ UNCHANGED <<inode_bitmap, data_bitmap, saved_inode_bitmap, saved_data_bitmap, inode_table, disk, file_descriptors,
                           next_fd, stress_workers>>
       ELSE \E p \in {prepare_workspace(S, config)} :
              /\ Commit(p.s)
              /\ IF ~p.ok
                 THEN /\ stress' = [stress EXCEPT !.pc = "returned", !.config = config,
                                                  !.result = FALSE]
                      /\ UNCHANGED stress_workers
                 ELSE /\ stress' = [stress EXCEPT !.pc = "running", !.config = config,
                                                  !.started = TRUE, !.monitor = "test",
                                                  !.ib_before = inode_bitmap,
                                                  !.db_before = data_bitmap]
                      /\ stress_workers' =
                           [w \in StressIds |->
                              IF w < config.thread_count
                              THEN [IdleStressWorker EXCEPT !.pc = "while"]
                              ELSE IdleStressWorker]
  /\ UNCHANGED <<beside_stress, aux_but_stressv>>

\* a worker thread takes its next step: a test of its loops or a facade call
WorkerStep(w) ==
  /\ stress.pc \in {"running", "join_workers"}
  /\ stress_workers[w].pc \notin {"none", "exited"}
  /\ stress_workers[w].pc = "while" =>
       stress.stop_flag \/ stress_workers[w].iteration < MaxIterations
  /\ \E r \in {worker_step(S, stress.config, w, stress_workers[w], stress.stop_flag)} :
       /\ Commit(r.s)
       /\ stress' = [stress EXCEPT !.error_counter = @ + r.err,
                                   !.operation_counter = @ + r.op]
       /\ stress_workers' =
            [u \in StressIds |->
               IF u = w THEN r.wk
               ELSE IF stress_workers[u].pc \in {"close_written", "open_read", "read"}
                       /\ (r.s.blk # disk \/ r.s.it # inode_table)
               THEN [stress_workers[u] EXCEPT !.disturbed = TRUE]
               ELSE stress_workers[u]]
  /\ UNCHANGED <<beside_stress, aux_but_stressv>>

\* the monitor thread: the test of its while, then the sleep, the second
\* load of the flag, the metrics line and the break
MonitorStep ==
  /\ stress.pc \in {"running", "join_workers", "join_monitor"}
  /\ stress.monitor \in {"test", "sleep"}
  /\ stress' = [stress EXCEPT !.monitor =
                  IF stress.monitor = "test"
                  THEN (IF stress.stop_flag THEN "exited" ELSE "sleep")
                  ELSE (IF stress.stop_flag THEN "exited" ELSE "test")]
  /\ UNCHANGED <<stress_workers, basev, aux_but_stressv>>

\* the duration has elapsed: the main thread stores the stop flag
SetStopFlag ==
  /\ stress.pc = "running"
  /\ stress' = [stress EXCEPT !.stop_flag = TRUE, !.pc = "join_workers"]
  /\ UNCHANGED <<stress_workers, basev, aux_but_stressv>>

\* every worker has been joined
JoinWorkers ==
  /\ stress.pc = "join_workers"
  /\ \A w \in StressIds : stress_workers[w].pc \in {"none", "exited"}
  /\ stress' = [stress EXCEPT !.pc = "join_monitor"]
  /\ UNCHANGED <<stress_workers, basev, aux_but_stressv>>

\* the monitor has been joined: the totals are printed, the workspace is
\* cleaned up when asked for, and run returns
JoinMonitorAndReturn ==
  /\ stress.pc = "join_monitor"
  /\ stress.monitor = "exited"
  /\ stress' = [stress EXCEPT !.pc = "returned",
                              !.result = run_result(stress.error_counter)]
  /\ IF stress.config.cleanup_after
     THEN Commit(cleanup_workspace(S, stress.config))
     ELSE UNCHANGED <<inode_bitmap, data_bitmap, saved_inode_bitmap, saved_data_bitmap, inode_table, disk, file_descriptors,
                      next_fd>>
  /\ UNCHANGED <<stress_workers, beside_stress, aux_but_stressv>>

\* the configurations tried: the workspace is the root ("/") or a directory
\* of the root
StressWorkspaces == {<<>>, <<"stress_suite">>}
StressFileCounts == 0 .. StressFiles
StressThreadCounts == 1 .. StressThreads
StressWriteSizes == {BLOCK_SIZE + 1}
StressBucketCounts == {0, 1}

NextStress ==
  \/ \E workspace_path \in StressWorkspaces, file_count \in StressFileCounts,
        thread_count \in StressThreadCounts, write_size \in StressWriteSizes,
        bucket_count \in StressBucketCounts, cleanup_after \in BOOLEAN :
       StartRun(workspace_path, file_count, thread_count, write_size, bucket_count,
                cleanup_after)
  \/ \E w \in StressIds : WorkerStep(w)
  \/ MonitorStep
  \/ SetStopFlag
  \/ JoinWorkers
  \/ JoinMonitorAndReturn

SpecStress == Init /\ [][NextStress]_vars

SpecStressFair ==
  /\ SpecStress
  /\ \A w \in StressIds : WF_vars(WorkerStep(w))
  /\ WF_vars(MonitorStep)
  /\ WF_vars(SetStopFlag)
  /\ WF_vars(JoinWorkers)
  /\ WF_vars(JoinMonitorAndReturn)

WorkersGone == \A w \in StressIds : stress_workers[w].pc \in {"none", "exited"}

\* C17: a started run eventually returns, and it returns only with the stop
\* flag set, after the monitor has exited, which is joined only after every
\* worker has exited; once the flag is set no worker begins another file
\* iteration.
C17_StopFlagEndsRun ==
  /\ []((stress.started /\ stress.pc \in {"join_monitor", "returned"}) => WorkersGone)
  /\ []((stress.started /\ stress.pc = "returned") => stress.monitor = "exited")
  /\ [][\A w \in StressIds :
          (stress_workers[w].pc = "for" /\ stress_workers'[w].pc = "ensure_parent")
            => ~stress.stop_flag]_vars
  /\ [](stress.pc = "returned" => (stress.started <=> stress.stop_flag))
  /\ (stress.pc = "running") ~> (stress.pc = "returned")

\* a run has returned whose worker was stopped by the flag after it had
\* completed file cycles and before it reached the bound of its iterations
C17_StoppedRunReturned ==
  /\ stress.pc = "returned"
  /\ stress.started
  /\ stress.stop_flag
  /\ stress.operation_counter > 0
  /\ \E w \in StressIds :
       stress_workers[w].pc = "exited" /\ stress_workers[w].iteration < MaxIterations

\* C18: run returns true if and only if the total error count of the run
\* is 0.
C18_TrueIffNoErrors ==
  stress.pc = "returned" => (stress.result <=> stress.error_counter = 0)

\* C18, as the code has it: run returns true if and only if the run was
\* started (the configuration is valid and the workspace was prepared) and
\* its total error count is 0; a run refused before its threads start
\* returns false with no error counted.
C18_TrueIffStartedAndNoErrors ==
  stress.pc = "returned" =>
    (stress.result <=> (stress.started /\ stress.error_counter = 0))

\* a started run has returned true after verified cycles
C18_CleanRunReturnedTrue ==
  /\ stress.pc = "returned"
  /\ stress.started
  /\ stress.result
  /\ stress.error_counter = 0
  /\ stress.operation_counter >= 2

\* C19: after a run with cleanup_after has returned, the workspace directory
\* no longer exists and every inode and data block the run took is free
\* again (the workspace being a directory of the root).
C19_CleanupFreesWorkspace ==
  (stress.pc = "returned" /\ stress.started /\ stress.config.cleanup_after
     /\ stress.config.workspace_path # <<>>) =>
    /\ ~file_exists(S, stress.config.workspace_path)
    /\ inode_bitmap = stress.ib_before
    /\ data_bitmap = stress.db_before

\* C20: allocate_inode never returns a number it has returned before unless
\* a free_inode of that number occurred in between, and a successful
\* allocate_data_blocks never returns a block whose bit was set.
C20_NeverReissued ==
  /\ ~last.reissued
  /\ last.alloc_ok =>
       \A i \in 1..Len(last.blocks_new) :
         /\ ~is_allocated(last.db_before, last.blocks_new[i] - DataStart)
         /\ \A j \in 1..Len(last.blocks_new) :
              last.blocks_new[i] = last.blocks_new[j] => i = j

\* C20, as the code has it: allocate_inode never returns a number it has
\* returned since the last format unless a free_inode of that number occurred
\* in between (format clears both bitmaps without a free_inode, and inode 0 is
\* handed out again for the new root); a successful allocate_data_blocks
\* never returns a block whose bit was set, nor one block twice.
C20_NeverReissuedSinceFormat ==
  /\ ~last.reissued_since_format
  /\ last.alloc_ok =>
       \A i \in 1..Len(last.blocks_new) :
         /\ ~is_allocated(last.db_before, last.blocks_new[i] - DataStart)
         /\ \A j \in 1..Len(last.blocks_new) :
              last.blocks_new[i] = last.blocks_new[j] => i = j

\* write_file was handed new blocks while other blocks were allocated, for a
\* file whose inode was handed out while the root's inode was
C20_BlocksHandedBesideOthers ==
  /\ last.op = "write_file"
  /\ last.alloc_ok
  /\ Len(last.blocks_new) >= 2
  /\ \E b \in DOMAIN last.db_before : last.db_before[b]
  /\ Cardinality(last.handed_since_format) >= 2

\* ------------------------------------------------------------------ BitmapManager with its count
\* A BitmapManager of BitmapBits bits as the class keeps it: the bytes of
\* bitmap_data (a byte is the set of offsets of its set bits) and
\* free_bits_count.  m is the manager, d the device.
bitmap_size == CeilDiv(BitmapBits, BitsPerByte)
\* BitmapManager::is_valid_bit
is_valid_bit(bit_num) == bit_num >= 0 /\ bit_num < BitmapBits
\* bitmap_data[byte_index] & (1 << bit_offset), with get_bit_location
BitSet(m, bit_num) == (bit_num % BitsPerByte) \in m.bitmap_data[bit_num \div BitsPerByte]
\* the number of clear bits among the total_bits bits
ClearBits(m) == Cardinality({bit \in 0..(BitmapBits - 1) : ~BitSet(m, bit)})

\* BitmapManager::recalculate_free_bits
recalculate_free_bits(m) == [m EXCEPT !.free_bits_count = ClearBits(m)]

\* BitmapManager::find_free_bit, on the manager's own bytes and count
BitmapManager_find_free_bit(m) ==
  IF m.free_bits_count = 0 THEN -1
  ELSE IF \A bit \in 0..(BitmapBits - 1) : BitSet(m, bit) THEN -1
  ELSE Min({bit \in 0..(BitmapBits - 1) : ~BitSet(m, bit)})

\* BitmapManager::set_bit and clear_bit
BitmapManager_set_bit(m, bit_num) ==
  IF ~is_valid_bit(bit_num) THEN m
  ELSE [m EXCEPT !.bitmap_data[bit_num \div BitsPerByte] = @ \cup {bit_num % BitsPerByte}]
BitmapManager_clear_bit(m, bit_num) ==
  IF ~is_valid_bit(bit_num) THEN m
  ELSE [m EXCEPT !.bitmap_data[bit_num \div BitsPerByte] = @ \ {bit_num % BitsPerByte}]

\* BitmapManager::allocate_bit
BitmapManager_allocate_bit(m) ==
  IF BitmapManager_find_free_bit(m) = -1 THEN [ok |-> FALSE, m |-> m, bit_num |-> -1]
  ELSE [ok |-> TRUE,
        m |-> [BitmapManager_set_bit(m, BitmapManager_find_free_bit(m)) EXCEPT
                 !.free_bits_count = @ - 1],
        bit_num |-> BitmapManager_find_free_bit(m)]

\* BitmapManager::free_bit
BitmapManager_free_bit(m, bit_num) ==
  IF ~is_valid_bit(bit_num) THEN [ok |-> FALSE, m |-> m]
  ELSE IF BitSet(m, bit_num)
  THEN [ok |-> TRUE,
        m |-> [BitmapManager_clear_bit(m, bit_num) EXCEPT !.free_bits_count = @ + 1]]
  ELSE [ok |-> TRUE, m |-> m]

\* BitmapManager::clear_all
clear_all(m) ==
  [m EXCEPT !.bitmap_data = [i \in 0..(bitmap_size - 1) |-> {}],
            !.free_bits_count = BitmapBits]

\* DiskSimulator::is_ready_for_io on the manager's device
DeviceReady(block_num) == block_num >= 0 /\ block_num < BitmapDeviceBlocks

\* the loop of load_from_disk from block i on, copied being the number of
\* bytes copied so far: a block that cannot be read ends the call
RECURSIVE LoadBlocks(_, _, _, _, _, _)
LoadBlocks(m, d, start_block_num, num_blocks, i, copied) ==
  IF i >= num_blocks THEN [ok |-> TRUE, m |-> m]
  ELSE IF ~DeviceReady(start_block_num + i) THEN [ok |-> FALSE, m |-> m]
  ELSE IF Min2(BLOCK_SIZE, bitmap_size - copied) <= 0 THEN [ok |-> TRUE, m |-> m]
  ELSE LoadBlocks(
         [m EXCEPT !.bitmap_data =
            [k \in 0..(bitmap_size - 1) |->
               IF k >= copied /\ k < copied + Min2(BLOCK_SIZE, bitmap_size - copied)
               THEN d[start_block_num + i][k - copied] ELSE m.bitmap_data[k]]],
         d, start_block_num, num_blocks, i + 1,
         copied + Min2(BLOCK_SIZE, bitmap_size - copied))

\* BitmapManager::load_from_disk: the count is recomputed after the loop, and
\* not when a read fails
load_from_disk(m, d, start_block_num, num_blocks) ==
  The({ IF ~l.ok THEN l ELSE [ok |-> TRUE, m |-> recalculate_free_bits(l.m)]
        : l \in {LoadBlocks(m, d, start_block_num, num_blocks, 0, 0)} })

\* the loop of save_to_disk from block i on
RECURSIVE SaveBlocks(_, _, _, _, _, _)
SaveBlocks(m, d, start_block_num, num_blocks, i, copied) ==
  IF i >= num_blocks THEN [ok |-> TRUE, d |-> d]
  ELSE IF ~DeviceReady(start_block_num + i) THEN [ok |-> FALSE, d |-> d]
  ELSE SaveBlocks(
         m,
         [d EXCEPT ![start_block_num + i] =
            [k \in 0..(BLOCK_SIZE - 1) |->
               IF k < Min2(BLOCK_SIZE, bitmap_size - copied)
               THEN m.bitmap_data[copied + k] ELSE {}]],
         start_block_num, num_blocks, i + 1,
         copied + Max2(Min2(BLOCK_SIZE, bitmap_size - copied), 0))
\* BitmapManager::save_to_disk
save_to_disk(m, d, start_block_num, num_blocks) ==
  SaveBlocks(m, d, start_block_num, num_blocks, 0, 0)

\* a call on the manager is made and its result noted
BitmapCall(op, ok, m, d) ==
  /\ bitmap_manager.calls < MaxBitmapOps
  /\ bitmap_manager' = [m EXCEPT !.calls = bitmap_manager.calls + 1, !.op = op, !.ok = ok]
  /\ bitmap_disk' = d
  /\ UNCHANGED <<basev, aux_but_bitmapv>>

AllocateBit ==
  \E a \in {BitmapManager_allocate_bit(bitmap_manager)} :
    BitmapCall("allocate_bit", a.ok, a.m, bitmap_disk)
FreeBit(bit_num) ==
  \E f \in {BitmapManager_free_bit(bitmap_manager, bit_num)} :
    BitmapCall("free_bit", f.ok, f.m, bitmap_disk)
ClearAll ==
  \E m \in {clear_all(bitmap_manager)} : BitmapCall("clear_all", TRUE, m, bitmap_disk)
LoadFromDisk(start_block_num, num_blocks) ==
  \E l \in {load_from_disk(bitmap_manager, bitmap_disk, start_block_num, num_blocks)} :
    BitmapCall("load_from_disk", l.ok, l.m, bitmap_disk)
SaveToDisk(start_block_num, num_blocks) ==
  \E v \in {save_to_disk(bitmap_manager, bitmap_disk, start_block_num, num_blocks)} :
    BitmapCall("save_to_disk", v.ok, bitmap_manager, v.d)

\* bit numbers passed to free_bit: the valid ones, -1 and total_bits
FreeBitArgs == -1 .. BitmapBits
\* block ranges passed to load_from_disk and save_to_disk: within the device
\* and running over its end
BitmapBlockStarts == 0 .. (BitmapDeviceBlocks - 1)
BitmapBlockCounts == 0 .. BitmapDeviceBlocks

NextBitmap ==
  \/ AllocateBit
  \/ \E bit_num \in FreeBitArgs : FreeBit(bit_num)
  \/ ClearAll
  \/ \E start_block_num \in BitmapBlockStarts, num_blocks \in BitmapBlockCounts :
       LoadFromDisk(start_block_num, num_blocks)
  \/ \E start_block_num \in BitmapBlockStarts, num_blocks \in BitmapBlockCounts :
       SaveToDisk(start_block_num, num_blocks)

SpecBitmap == Init /\ [][NextBitmap]_vars

\* C21: in every state total == free + used, the maintained free count being
\* the number of clear bits, after any sequence of allocate_bit, free_bit,
\* clear_all and load_from_disk.
C21_FreeCountIsClearBits ==
  /\ bitmap_manager.free_bits_count = ClearBits(bitmap_manager)
  /\ BitmapBits = bitmap_manager.free_bits_count
                    + (BitmapBits - bitmap_manager.free_bits_count)

\* ------------------------------------------------------------------ directories and their entries
\* listing holds an entry of that name for that inode
HasEntry(listing, name, inode_number) ==
  \E i \in 1..Len(listing) :
    listing[i].name = name /\ listing[i].inode_number = inode_number

\* the allocated directories holding an entry other than "." and ".." for n
ParentsOf(n) ==
  {p \in LiveDirectories :
     \E i \in 1..Len(EntriesOf(p)) :
       EntriesOf(p)[i].inode_number = n /\ EntriesOf(p)[i].name \notin {".", ".."}}

\* C22: every allocated directory inode has a first data block whose entries
\* include "." for the directory itself and ".." for its parent, the root
\* being its own parent.
C22_DotAndDotDot ==
  \A n \in LiveDirectories :
    /\ SelectNonZero(inode_table[n].direct_blocks) # <<>>
    /\ HasEntry(EntriesOf(n), ".", n)
    /\ IF n = 0 THEN HasEntry(EntriesOf(n), "..", 0)
       ELSE \E p \in ParentsOf(n) : HasEntry(EntriesOf(n), "..", p)

\* C23: after create_directory(path) succeeds, list_directory(path) returns
\* exactly "." and "..", in that order, "." with the new directory's inode
\* number and ".." with its parent's.
C23_NewDirectoryLists ==
  \A path \in Paths :
    \A c \in {create_directory(S, path)} :
      c.ok => list_directory(c.s, path) =
                [ok |-> TRUE,
                 list |-> <<Entry(InodeAllocated(S, path), "."),
                            Entry(find_inode(S, get_parent_path(path)), "..")>>]

\* ------------------------------------------------------------------ format
\* FileSystem::mount of the image s holds, no descriptor being open
\* (initialize_after_open: the bitmaps are loaded as saved, then
\* ensure_root_directory)
mount(s) == ensure_root_directory(load_bitmaps(s))

\* what list_directory("/") returns on a fresh root
FreshRootListing == [ok |-> TRUE, list |-> <<Entry(0, "."), Entry(0, "..")>>]

\* C24: after format the image is mountable, list_directory("/") returns
\* exactly "." and "..", both for inode 0, and no path that existed before
\* resolves any more.
C24_FormatLeavesFreshRoot ==
  last.op = "format" =>
    /\ last.ok
    /\ list_directory(S, <<>>) = FreshRootListing
    /\ \A path \in Paths : Resolves(S, path) => path \in {<<>>, <<".">>}
    /\ mount(S).ok
    /\ list_directory(mount(S).s, <<>>) = FreshRootListing

C24_FormattedAfterUse ==
  /\ last.op = "format"
  /\ last.ok
  /\ \E b \in DOMAIN disk :
       /\ disk[b].k = "d"
       /\ \E i \in 1..Len(disk[b].v) : disk[b].v[i].name \in {"a", "b"}

\* ------------------------------------------------------------------ format in steps
\* FileSystem::format statement by statement, run by thread 1, while thread 2
\* calls list_directory("/") and other calls have created paths before.
\* fmt.pc is the statement format has completed, fmt.list_pc where the listing
\* thread stands, fmt.obs what its last call returned and fmt.obs_during the
\* value of fmt.pc at that moment; fmt.pre is the listing when format started,
\* fmt.waited says that format was running when the listing thread called and
\* fmt.changed that a path was created while it waited.
MaxFormatCalls == 4
FormatSetupPaths == {<<"a">>, <<"a", "b">>}
FormatRunning == {"locked", "formatted", "loaded", "reloaded"}

\* DiskSimulator::format_disk as the mounted object sees it: the bitmaps and
\* the inode table on the device are zero, the bitmaps in memory are not yet
\* reloaded
format_device(s) == initialize_inode_table(initialize_bitmaps(s))

FormatStep(pc) ==
  /\ fmt' = [fmt EXCEPT !.pc = pc]
  /\ UNCHANGED <<last, nops, fs_mutex, dispatcher_mutex, workers, ntasks>>
  /\ UNCHANGED aux_but_formatv

\* a create_file or create_directory call made while no call is running
FormatSetup(op, path) ==
  /\ fmt.calls < MaxFormatCalls
  /\ fs_mutex = [writer |-> 0, readers |-> {}]
  /\ \E s \in {IF op = "create_file" THEN create_file(S, path).s
               ELSE create_directory(S, path).s} : Commit(s)
  /\ fmt' = [fmt EXCEPT !.calls = @ + 1, !.changed = @ \/ fmt.list_pc = "call"]
  /\ UNCHANGED <<last, nops, fs_mutex, dispatcher_mutex, workers, ntasks>>
  /\ UNCHANGED aux_but_formatv

\* auto guard = acquire_unique_lock();
FormatAcquire ==
  /\ fmt.pc = "idle"
  /\ fmt.calls < MaxFormatCalls
  /\ \E g \in {guard("format", fs_mutex, 1)} :
       /\ g.free
       /\ fs_mutex' = g.m
  /\ fmt' = [fmt EXCEPT !.pc = "locked", !.calls = @ + 1,
                        !.pre = list_directory(S, <<>>)]
  /\ UNCHANGED <<inode_bitmap, data_bitmap, saved_inode_bitmap, saved_data_bitmap, inode_table, disk, file_descriptors, next_fd,
                 last, nops, dispatcher_mutex, workers, ntasks>>
  /\ UNCHANGED aux_but_formatv

\* disk.format_disk()
FormatDevice ==
  /\ fmt.pc = "locked"
  /\ Commit(format_device(S))
  /\ FormatStep("formatted")

\* load_superblock()
FormatLoadSuperblock ==
  /\ fmt.pc = "formatted"
  /\ Commit(S)
  /\ FormatStep("loaded")

\* inode_manager.reload_bitmap()
FormatReloadBitmaps ==
  /\ fmt.pc = "loaded"
  /\ Commit(reload_bitmap(S))
  /\ FormatStep("reloaded")

\* ensure_root_directory(), return, and the guard is destroyed
FormatEnsureRoot ==
  /\ fmt.pc = "reloaded"
  /\ Commit(ensure_root_directory(S).s)
  /\ fs_mutex' = unlock(fs_mutex, 1)
  /\ fmt' = [fmt EXCEPT !.pc = "idle"]
  /\ UNCHANGED <<last, nops, dispatcher_mutex, workers, ntasks>>
  /\ UNCHANGED aux_but_formatv

\* thread 2 calls list_directory("/")
ListCall ==
  /\ fmt.list_pc = "idle"
  /\ fmt.calls < MaxFormatCalls
  /\ fmt' = [fmt EXCEPT !.list_pc = "call", !.calls = @ + 1,
                        !.waited = fmt.pc \in FormatRunning,
                        !.seen = FALSE, !.changed = FALSE]
  /\ UNCHANGED basev
  /\ UNCHANGED aux_but_formatv

\* auto guard = acquire_shared_lock();
ListAcquire ==
  /\ fmt.list_pc = "call"
  /\ \E g \in {guard("list_directory", fs_mutex, 2)} :
       /\ g.free
       /\ fs_mutex' = g.m
  /\ fmt' = [fmt EXCEPT !.list_pc = "in"]
  /\ UNCHANGED <<inode_bitmap, data_bitmap, saved_inode_bitmap, saved_data_bitmap, inode_table, disk, file_descriptors, next_fd,
                 last, nops, dispatcher_mutex, workers, ntasks>>
  /\ UNCHANGED aux_but_formatv

\* directory_manager.list_directory, return, and the guard is destroyed
ListReturn ==
  /\ fmt.list_pc = "in"
  /\ fmt' = [fmt EXCEPT !.list_pc = "idle", !.seen = TRUE,
                        !.obs = list_directory(S, <<>>), !.obs_during = fmt.pc]
  /\ fs_mutex' = unlock(fs_mutex, 2)
  /\ UNCHANGED <<inode_bitmap, data_bitmap, saved_inode_bitmap, saved_data_bitmap, inode_table, disk, file_descriptors, next_fd,
                 last, nops, dispatcher_mutex, workers, ntasks>>
  /\ UNCHANGED aux_but_formatv

NextFormat ==
  \/ \E op \in {"create_file", "create_directory"}, path \in FormatSetupPaths :
       FormatSetup(op, path)
  \/ FormatAcquire
  \/ FormatDevice
  \/ FormatLoadSuperblock
  \/ FormatReloadBitmaps
  \/ FormatEnsureRoot
  \/ ListCall
  \/ ListAcquire
  \/ ListReturn

\* a format of the mounted facade beside a thread listing the root
SpecFormat == Init /\ [][NextFormat]_vars

\* the root listing is that of a whole state: "." and ".." name inode 0
WholeListing(listing) ==
  /\ listing.ok
  /\ HasEntry(listing.list, ".", 0)
  /\ HasEntry(listing.list, "..", 0)

\* C25: format runs device format, superblock reload, reload of both bitmaps
\* and root re-creation under the exclusive facade lock, and a concurrent
\* list_directory("/") returns the listing of the state before the format or
\* of the state after it, never of a state in between.
C25_FormatIsAtomicToReaders ==
  /\ fmt.pc \in FormatRunning => fs_mutex = [writer |-> 1, readers |-> {}]
  /\ fmt.list_pc = "in" => fmt.pc = "idle"
  /\ fmt.seen => (fmt.obs_during = "idle" /\ WholeListing(fmt.obs))
  /\ (fmt.seen /\ fmt.waited /\ ~fmt.changed) => fmt.obs \in {fmt.pre, FreshRootListing}

\* the listing thread called while a format was running on a root that held
\* an entry, and its call has returned the fresh root
C25_ListedAfterWaiting ==
  /\ fmt.seen
  /\ fmt.waited
  /\ fmt.pre # FreshRootListing
  /\ fmt.obs = FreshRootListing

\* ------------------------------------------------------------------ refusals
\* the names a listing holds beside "." and ".."
OtherNames(listing) ==
  {listing[i].name : i \in 1..Len(listing)} \ {".", ".."}

LeavesAllocationAndDirectories(s, after) ==
  /\ after.ib = s.ib
  /\ after.db = s.db
  /\ \A n \in InodeNums :
       (is_inode_allocated(s, n) /\ s.it[n].mode = "dir") =>
         read_directory(after, n) = read_directory(s, n)

\* C27: create_file and create_directory reject a path that already exists
\* and a path whose parent directory does not exist; no inode or data block
\* stays allocated and no directory is modified.
C27_CreateRejects ==
  \A path \in Paths :
    (file_exists(S, path) \/ ~is_directory(S, get_parent_path(path))) =>
      /\ \A c \in {create_file(S, path)} :
           c.ret = -1 /\ LeavesAllocationAndDirectories(S, c.s)
      /\ \A c \in {create_directory(S, path)} :
           ~c.ok /\ LeavesAllocationAndDirectories(S, c.s)

\* ------------------------------------------------------------------ rollback
\* the number of clear bits of a bitmap (BitmapManager::get_free_bits)
get_free_bits(bm) == Cardinality({i \in DOMAIN bm : ~bm[i]})

\* C28: when create_directory fails after the new inode has been allocated,
\* the inode and its data block are freed again: the inode and data free
\* counts are what they were before the call and no entry for the path exists.
C28_FailedCreateDirectoryRollsBack ==
  \A path \in Paths :
    \A c \in {create_directory(S, path)} :
      (~c.ok /\ InodeAllocated(S, path) # -1) =>
        /\ get_free_bits(c.s.ib) = get_free_bits(S.ib)
        /\ get_free_bits(c.s.db) = get_free_bits(S.db)
        /\ ~is_inode_allocated(c.s, InodeAllocated(S, path))
        /\ ~Resolves(c.s, path)

\* a create_directory call was handed an inode, failed, and gave the inode back
C28_FailedAfterAllocation ==
  /\ last.op = "create_directory"
  /\ ~last.ok
  /\ last.inode_new # -1
  /\ last.inode_freed = last.inode_new

\* ------------------------------------------------------------------ delete_file
\* C29: delete_file(path) rejects a directory and changes nothing; for a
\* regular file it removes the entry from the parent and frees the inode:
\* the path no longer resolves, and the inode and data free counts are what
\* they were before the file was created.
C29_DeleteGivesBackWhatCreateTook ==
  /\ \A path \in Paths :
       is_directory(S, path) => delete_file(S, path) = [ok |-> FALSE, s |-> S]
  /\ \A path \in Paths, buffer \in Buffers :
       find_inode(S, path) = -1 =>
         \A c \in {create_file(S, path)} :
           (c.ret # -1 /\ Resolves(c.s, path)) =>
             \A o \in {open_file(c.s, path, {"READ", "WRITE"})} :
             \A w \in {write_file(o.s, o.ret, buffer)} :
             \A cl \in {close_file(w.s, o.ret)} :
             \A d \in {delete_file(cl.s, path)} :
               /\ d.ok
               /\ ~Resolves(d.s, path)
               /\ get_free_bits(d.s.ib) = get_free_bits(S.ib)
               /\ get_free_bits(d.s.db) = get_free_bits(S.db)

\* ------------------------------------------------------------------ copy
\* the buffer cmd_copy reads with: 4096 bytes, one block
copy_buffer_size == BLOCK_SIZE

\* the read loop of cmd_copy on descriptor src_fd: read_file is called until
\* it returns less than a full buffer; bytes_read is what the last call returned
RECURSIVE CopyReadLoop(_, _, _)
CopyReadLoop(s, src_fd, file_content) ==
  The({ IF r.ret = copy_buffer_size
        THEN CopyReadLoop(r.s, src_fd, file_content \o r.data)
        ELSE [s |-> r.s, bytes_read |-> r.ret,
              file_content |-> IF r.ret > 0 THEN file_content \o r.data ELSE file_content]
        : r \in {read_file(s, src_fd, copy_buffer_size)} })

\* the second half of cmd_copy: the destination is opened with
\* OPEN_MODE_WRITE | OPEN_MODE_CREATE, written and closed
CopyWrite(s, dst_path, file_content) ==
  The({ IF d.ret = -1 THEN [ok |-> FALSE, s |-> d.s]
        ELSE The({ [ok |-> w.ret = Len(file_content), s |-> close_file(w.s, d.ret).s]
                   : w \in {write_file(d.s, d.ret, file_content)} })
        : d \in {open_file(s, dst_path, {"WRITE", "CREATE"})} })

\* CLIInterface::cmd_copy
cmd_copy(s, src_path, dst_path) ==
  IF ~file_exists(s, src_path) THEN [ok |-> FALSE, s |-> s]
  ELSE The({ IF o.ret = -1 THEN [ok |-> FALSE, s |-> o.s]
             ELSE The({ IF l.bytes_read < 0
                        THEN [ok |-> FALSE, s |-> close_file(l.s, o.ret).s]
                        ELSE CopyWrite(close_file(l.s, o.ret).s, dst_path, l.file_content)
                        : l \in {CopyReadLoop(o.s, o.ret, <<>>)} })
             : o \in {open_file(s, src_path, {"READ"})} })

\* what reading the file at path returns: every byte up to its size
FileContent(s, path) ==
  The({ IF o.ret = -1 THEN [ok |-> FALSE, data |-> <<>>]
        ELSE The({ [ok |-> r.ret # -1, data |-> r.data]
                   : r \in {read_file(o.s, o.ret, o.s.it[find_inode(s, path)].size)} })
        : o \in {open_file(s, path, {"READ"})} })

\* path names a regular file in s
NamesFile(s, path) ==
  \E inode_num \in {find_inode(s, path)} : inode_num # -1 /\ IsRegularFile(s, inode_num)

\* C30: after copy src dst reports success, reading dst returns exactly the
\* content of src, whether or not dst existed before and whatever the length
\* of src.  cmd_copy writes to dst what its read loop returned: the second
\* conjunct states the same of the write for every content the source can
\* hold, the third that the read loop returns the content of the source.
C30_CopyReadsBackSource ==
  /\ \A src_path \in Paths, dst_path \in Paths :
       (NamesFile(S, src_path) /\ (NamesFile(S, dst_path) \/ ~file_exists(S, dst_path))) =>
         \A k \in {cmd_copy(S, src_path, dst_path)} :
           k.ok => FileContent(k.s, dst_path) =
                     [ok |-> TRUE, data |-> FileContent(S, src_path).data]
  /\ \A dst_path \in Paths, file_content \in Buffers :
       NamesFile(S, dst_path) =>
         \A k \in {CopyWrite(S, dst_path, file_content)} :
           k.ok => FileContent(k.s, dst_path) = [ok |-> TRUE, data |-> file_content]
  /\ \A src_path \in Paths :
       NamesFile(S, src_path) =>
         \A o \in {open_file(S, src_path, {"READ"})} :
         \A l \in {CopyReadLoop(o.s, o.ret, <<>>)} :
           l.bytes_read >= 0 => l.file_content = FileContent(S, src_path).data

\* ---------------------------------------------------------------------------
\* Descriptors: open_file and close_file alone, on the root of a mounted image
\* ---------------------------------------------------------------------------

\* how many opens and closes one run makes
MaxFdCalls == 6

FdModes == {{"READ"}, {"READ", "WRITE"}}

\* the descriptors a caller may hand to close_file: those the range allows and
\* the two above it
FdRange == FirstFd .. (MaxFd + 2)

\* FileSystem::open_file on the root directory
FdOpen(mode) ==
  /\ fd_calls.calls < MaxFdCalls
  /\ \E o \in {open_file(S, <<>>, mode)} :
       /\ Commit(o.s)
       /\ fd_calls' = [calls |-> fd_calls.calls + 1, ret |-> o.ret]
  /\ UNCHANGED <<last, nops, fs_mutex, dispatcher_mutex, workers, ntasks>>
  /\ UNCHANGED aux_but_fdv

\* FileSystem::close_file
FdClose(fd) ==
  /\ fd_calls.calls < MaxFdCalls
  /\ \E c \in {close_file(S, fd)} :
       /\ c.ok
       /\ Commit(c.s)
       /\ fd_calls' = [fd_calls EXCEPT !.calls = @ + 1]
  /\ UNCHANGED <<last, nops, fs_mutex, dispatcher_mutex, workers, ntasks>>
  /\ UNCHANGED aux_but_fdv

NextFd ==
  \/ \E mode \in FdModes : FdOpen(mode)
  \/ \E fd \in FdRange : FdClose(fd)

SpecFd == Init /\ [][NextFd]_vars

\* C31: every descriptor open_file returns, and every descriptor in the open
\* table, lies in FirstFd..MaxFd (3..1024), over any sequence of opens and
\* closes
C31_DescriptorsInRange ==
  /\ fd_calls.ret \in {-1} \cup (FirstFd .. MaxFd)
  /\ DOMAIN file_descriptors \subseteq FirstFd .. MaxFd

\* the allocator never reaches its wrap: next_fd is above every open descriptor
\* whenever it is consulted
C31_NextFdAboveOpen ==
  \A fd \in DOMAIN file_descriptors : fd < next_fd

\* a descriptor above MaxFd has been returned although lower ones were free
C31_ReturnedAboveRange ==
  /\ fd_calls.ret > MaxFd
  /\ FirstFd \notin DOMAIN file_descriptors

\* ---------------------------------------------------------------------------
\* read_file at the end of the file and before it
\* ---------------------------------------------------------------------------

\* the outcome read_file is to have on descriptor fd of s for a request of size
\* bytes: 0 and nothing changed at or past the end, and otherwise the bytes up
\* to the end or to the request, whichever is less, with the position moved
\* past them
ReadsWithinSize(s, fd, size) ==
  \E r \in {read_file(s, fd, size)} :
    IF s.fdt[fd].position >= s.it[s.fdt[fd].inode_num].size
    THEN r.ret = 0 /\ r.s = s /\ r.data = <<>>
    ELSE /\ r.ret = Min2(size, s.it[s.fdt[fd].inode_num].size - s.fdt[fd].position)
         /\ Len(r.data) = r.ret
         /\ r.s.fdt[fd].position = s.fdt[fd].position + r.ret
         /\ r.s.fdt[fd].position <= s.it[s.fdt[fd].inode_num].size
         /\ r.s = [s EXCEPT !.fdt[fd].position = r.s.fdt[fd].position]

MaxMountCalls == 5

MountPaths == {<<"a">>}
MountModes == {{"READ", "WRITE"}, {"WRITE", "CREATE"}}
MountFds == FirstFd .. (FirstFd + 1)
\* a byte, and more bytes than the free blocks of the image and their pointer
\* blocks can hold
MountBuffers ==
  {Pattern(1), Pattern(BLOCK_SIZE * (DIRECT_BLOCKS_COUNT + 2 * PtrsPerBlock + 2) + 1)}

aux_but_procv_mountv == <<lockv, classv, poolv, stressv, bitmapv, formatv, fdv, inodev, blockv, unmountv>>
facade_rest == <<last, nops, fs_mutex, dispatcher_mutex, workers, ntasks>>

\* the record of a call: its name, its result and the error it logged
Called(op, ok, err) ==
  [mnt EXCEPT !.op = op, !.ok = ok, !.err = err, !.calls = @ + 1]

\* DiskSimulator::open_disk after its flock call: the image is open and locked
open_disk(d) ==
  [d EXCEPT !.disk_file = TRUE, !.lock_acquired = TRUE, !.disk_open = TRUE]

\* FileSystem::load_superblock: block 0 holds the magic number
load_superblock(magic) == magic = MAGIC_NUMBER

\* an unmount that leaves the open-file table as it is
close_all_files_none(s) == s

\* the loop of close_all_files: close_file_internal on every open descriptor
RECURSIVE CloseLoop(_)
CloseLoop(s) ==
  IF DOMAIN s.fdt = {} THEN s
  ELSE CloseLoop(close_file(s, Min(DOMAIN s.fdt)).s)

\* FileSystem::close_all_files
close_all_files(s) == CloseLoop(s)

\* FileSystem::mount
MountCall ==
  /\ mnt.calls < MaxMountCalls
  /\ IF procs[1].mounted
     THEN /\ mnt' = Called("mount", FALSE, "ERROR_INVALID_ARGUMENT")
          /\ UNCHANGED <<procs, host_lock, inode_bitmap, data_bitmap, saved_inode_bitmap, saved_data_bitmap, inode_table,
                         disk, file_descriptors, next_fd>>
     ELSE \E l \in {flock_ex(host_lock, 1)} :
            /\ l.granted
            /\ IF ~load_superblock(mnt.magic)
               THEN /\ procs' = [procs EXCEPT ![1] = close_disk(open_disk(@))]
                    /\ host_lock' = flock_un(l.lock, 1)
                    /\ mnt' = Called("mount", FALSE, "ERROR_INVALID_ARGUMENT")
                    /\ UNCHANGED <<inode_bitmap, data_bitmap, saved_inode_bitmap, saved_data_bitmap, inode_table, disk,
                                   file_descriptors, next_fd>>
               ELSE \E m \in {mount(S)} :
                      /\ Commit(m.s)
                      /\ IF m.ok
                         THEN /\ procs' = [procs EXCEPT ![1] =
                                             [open_disk(@) EXCEPT !.pc = "mounted",
                                                                  !.mounted = TRUE]]
                              /\ host_lock' = l.lock
                              /\ mnt' = Called("mount", TRUE, "none")
                         ELSE /\ procs' = [procs EXCEPT ![1] = close_disk(open_disk(@))]
                              /\ host_lock' = flock_un(l.lock, 1)
                              /\ mnt' = Called("mount", FALSE, "ERROR_IO_ERROR")
  /\ UNCHANGED facade_rest
  /\ UNCHANGED aux_but_procv_mountv

\* FileSystem::unmount
UnmountCall ==
  /\ mnt.calls < MaxMountCalls
  /\ IF ~procs[1].mounted
     THEN /\ mnt' = Called("unmount", FALSE, "ERROR_NOT_MOUNTED")
          /\ UNCHANGED <<procs, host_lock, inode_bitmap, data_bitmap, saved_inode_bitmap, saved_data_bitmap, inode_table,
                         disk, file_descriptors, next_fd>>
     ELSE /\ Commit(close_all_files(S))
          /\ procs' = [procs EXCEPT ![1] = close_disk(@)]
          /\ host_lock' = flock_un(host_lock, 1)
          /\ mnt' = [Called("unmount", TRUE, "none") EXCEPT
                       !.stale = mnt.issued]
  /\ UNCHANGED facade_rest
  /\ UNCHANGED aux_but_procv_mountv

\* a facade operation that yields r on a mounted facade: ensure_mounted first
FacadeCall(op, ok, s, fd) ==
  /\ mnt.calls < MaxMountCalls
  /\ IF ~procs[1].mounted
     THEN /\ mnt' = Called(op, FALSE, "ERROR_NOT_MOUNTED")
          /\ UNCHANGED <<inode_bitmap, data_bitmap, saved_inode_bitmap, saved_data_bitmap, inode_table, disk,
                         file_descriptors, next_fd>>
     ELSE /\ Commit(s)
          /\ mnt' = [Called(op, ok, IF ok THEN "none" ELSE "lower") EXCEPT
                       !.issued = IF fd >= 0 THEN @ \cup {fd} ELSE @]
  /\ UNCHANGED <<procs, host_lock>>
  /\ UNCHANGED facade_rest
  /\ UNCHANGED aux_but_procv_mountv

\* FileSystem::open_file
MountedOpen(path, mode) ==
  \E r \in {open_file(S, path, mode)} : FacadeCall("open_file", r.ret >= 0, r.s, r.ret)

\* FileSystem::close_file
MountedClose(fd) ==
  \E r \in {close_file(S, fd)} : FacadeCall("close_file", r.ok, r.s, -1)

\* FileSystem::write_file
MountedWrite(fd, buffer) ==
  \E r \in {write_file(S, fd, buffer)} : FacadeCall("write_file", r.ret >= 0, r.s, -1)

\* FileSystem::read_file
MountedRead(fd) ==
  \E r \in {read_file(S, fd, 1)} : FacadeCall("read_file", r.ret >= 0, r.s, -1)

\* FileSystem::delete_file
MountedDelete(path) ==
  \E r \in {delete_file(S, path)} : FacadeCall("delete_file", r.ok, r.s, -1)

\* FileSystem::create_directory
MountedMkdir(path) ==
  \E r \in {create_directory(S, path)} : FacadeCall("create_directory", r.ok, r.s, -1)

\* App::handle_create_command on the image of the unmounted facade: a new
\* image of zeros, which holds no magic number
CreateDisk ==
  /\ mnt.calls < MaxMountCalls
  /\ ~procs[1].disk_open
  /\ Commit([format_device(S) EXCEPT !.blk = BlankImage.blk])
  /\ mnt' = [Called("create", TRUE, "none") EXCEPT !.magic = 0]
  /\ UNCHANGED <<procs, host_lock>>
  /\ UNCHANGED facade_rest
  /\ UNCHANGED aux_but_procv_mountv

\* App::handle_format_command on the image of the unmounted facade
FormatDisk ==
  /\ mnt.calls < MaxMountCalls
  /\ ~procs[1].disk_open
  /\ host_lock = 0
  /\ Commit(format_device(S))
  /\ mnt' = [Called("format", TRUE, "none") EXCEPT !.magic = MAGIC_NUMBER]
  /\ UNCHANGED <<procs, host_lock>>
  /\ UNCHANGED facade_rest
  /\ UNCHANGED aux_but_procv_mountv

NextMount ==
  \/ MountCall
  \/ UnmountCall
  \/ \E path \in MountPaths, mode \in MountModes : MountedOpen(path, mode)
  \/ \E fd \in MountFds : MountedClose(fd)
  \/ \E fd \in MountFds, buffer \in MountBuffers : MountedWrite(fd, buffer)
  \/ \E fd \in MountFds : MountedRead(fd)
  \/ \E path \in MountPaths : MountedDelete(path)
  \/ \E path \in MountPaths : MountedMkdir(path)
  \/ CreateDisk
  \/ FormatDisk

SpecMount == Init /\ [][NextMount]_vars

\* C33: a mount of an image whose block 0 does not hold the magic number
\* fails and leaves the facade unmounted, its host file closed and the host
\* lock free
C33_BadMagicMountFails ==
  [][(~procs[1].mounted /\ mnt.magic # MAGIC_NUMBER
        /\ mnt'.calls = mnt.calls + 1 /\ mnt'.op = "mount")
       => (/\ ~mnt'.ok
           /\ ~procs'[1].mounted
           /\ ~procs'[1].disk_file /\ ~procs'[1].disk_open
           /\ ~procs'[1].lock_acquired
           /\ host_lock' = 0
           /\ S' = S)]_vars

\* a mount has just failed on an image without the magic number
C33_MountRefused ==
  /\ mnt.op = "mount" /\ ~mnt.ok
  /\ mnt.magic # MAGIC_NUMBER
  /\ mnt.err = "ERROR_INVALID_ARGUMENT"
  /\ ~procs[1].mounted

\* the step is a call of op on the facade
Calls(op) == mnt'.calls = mnt.calls + 1 /\ mnt'.op = op

\* the operations of the facade that ensure_mounted guards
GuardedOps ==
  {"unmount", "open_file", "close_file", "write_file", "read_file", "delete_file",
   "create_directory"}

\* C34: mount on a mounted facade fails with the AlreadyMounted error and
\* leaves the mount, the device and the open-file table as they are; any other
\* facade operation on an unmounted facade fails with NotMounted
C34_AlreadyMountedNotMounted ==
  [][/\ (procs[1].mounted /\ Calls("mount"))
          => (/\ ~mnt'.ok
              /\ mnt'.err = "ERROR_ALREADY_MOUNTED"
              /\ procs' = procs /\ host_lock' = host_lock /\ S' = S)
     /\ \A op \in GuardedOps :
          (~procs[1].mounted /\ Calls(op))
            => (/\ ~mnt'.ok
                /\ mnt'.err = "ERROR_NOT_MOUNTED"
                /\ procs' = procs /\ host_lock' = host_lock /\ S' = S)]_vars

\* what holds of the same calls: the second mount fails and changes nothing,
\* under the error code of an invalid argument, and the guarded operations fail
\* with NotMounted
C34_RefusedUnderOtherCode ==
  [][/\ (procs[1].mounted /\ Calls("mount"))
          => (/\ ~mnt'.ok
              /\ mnt'.err = "ERROR_INVALID_ARGUMENT"
              /\ procs' = procs /\ host_lock' = host_lock /\ S' = S)
     /\ \A op \in GuardedOps :
          (~procs[1].mounted /\ Calls(op))
            => (/\ ~mnt'.ok
                /\ mnt'.err = "ERROR_NOT_MOUNTED"
                /\ procs' = procs /\ host_lock' = host_lock /\ S' = S)]_vars

\* every operation that takes a descriptor refuses fd on s
RejectsDescriptor(s, fd) ==
  /\ ~get_file_descriptor(s, fd)
  /\ read_file(s, fd, 1).ret = -1
  /\ write_file(s, fd, Pattern(1)).ret = -1
  /\ ~seek_file(s, fd, 0).ok
  /\ ~close_file(s, fd).ok

\* C35: unmount closes every open handle: after it the open table is empty,
\* and every descriptor issued before the unmount is refused by read_file,
\* write_file, seek_file and close_file, also after a later mount and after
\* later opens
C35_UnmountClosesHandles ==
  /\ ~procs[1].mounted => file_descriptors = <<>>
  /\ \A fd \in mnt.stale : RejectsDescriptor(S, fd)

\* a file was open at an unmount, and the facade is mounted again with another
\* file open
C35_RemountedWithNewHandle ==
  /\ procs[1].mounted
  /\ mnt.stale # {}
  /\ DOMAIN file_descriptors # {}

\* the step is a successful mount that follows a successful unmount at once
Remounts ==
  /\ mnt.op = "unmount" /\ mnt.ok
  /\ Calls("mount") /\ mnt'.ok

\* C36: what the facade held in memory when it was unmounted is what a mount
\* of the same image finds: both bitmaps, the inode table (sizes and block
\* pointers) and the data region (directory entries and file contents)
C36_RemountFindsSameState ==
  [][Remounts => (/\ inode_bitmap' = inode_bitmap
                  /\ data_bitmap' = data_bitmap
                  /\ inode_table' = inode_table
                  /\ disk' = disk)]_vars

\* the same without the data bitmap
C36_RemountFindsTreeAndInodeBitmap ==
  [][Remounts => (/\ inode_bitmap' = inode_bitmap
                  /\ inode_table' = inode_table
                  /\ disk' = disk)]_vars

\* the bitmaps in memory are the saved ones whenever the facade is mounted
C36_BitmapsSaved ==
  procs[1].mounted =>
    /\ inode_bitmap = saved_inode_bitmap
    /\ data_bitmap = saved_data_bitmap

\* ---------------------------------------------------------------------------
\* The inode table block by block
\* ---------------------------------------------------------------------------
\* inode_dev.blocks are the blocks of the inode table as bytes, an inode being
\* SizeofInode bytes; inode_dev.kept is the inode last handed to write_inode
\* under each number (zero before).

\* how many write_inode calls one run makes
MaxInodeWrites == 4

\* the inodes written: every byte 1, or every byte 2
InodeValues == {[j \in 1..SizeofInode |-> v] : v \in 1..2}

\* InodeManager::get_inode_position: the block of the table and the offset in it
inode_block_num(n) == n \div InodesPerBlock
inode_offset_in_block(n) == (n % InodesPerBlock) * SizeofInode

\* a write_inode that writes the inode into a block buffer of zeros instead of
\* the block read from the device
InodeManager_write_inode_fresh_buffer(blocks, n, inode) ==
  IF ~get_inode_position(n) THEN [ok |-> FALSE, blocks |-> blocks]
  ELSE [ok |-> TRUE,
        blocks |-> [blocks EXCEPT ![inode_block_num(n)] =
                      [j \in 1..BLOCK_SIZE |->
                         IF j > inode_offset_in_block(n)
                              /\ j <= inode_offset_in_block(n) + SizeofInode
                         THEN inode[j - inode_offset_in_block(n)]
                         ELSE 0]]]

\* InodeManager::write_inode: the block is read, the inode is copied over its
\* bytes at the offset, the block is written back
InodeManager_write_inode(blocks, n, inode) ==
  IF ~get_inode_position(n) THEN [ok |-> FALSE, blocks |-> blocks]
  ELSE [ok |-> TRUE,
        blocks |-> [blocks EXCEPT ![inode_block_num(n)] =
                      [j \in 1..BLOCK_SIZE |->
                         IF j > inode_offset_in_block(n)
                              /\ j <= inode_offset_in_block(n) + SizeofInode
                         THEN inode[j - inode_offset_in_block(n)]
                         ELSE blocks[inode_block_num(n)][j]]]]

\* InodeManager::read_inode: the bytes at the offset of the block
InodeManager_read_inode(blocks, n) ==
  IF ~get_inode_position(n) THEN [ok |-> FALSE, inode |-> <<>>]
  ELSE [ok |-> TRUE,
        inode |-> [j \in 1..SizeofInode |->
                     blocks[inode_block_num(n)][inode_offset_in_block(n) + j]]]

\* a write_inode call, with a number in the table or just outside it
WriteInode(n, inode) ==
  /\ inode_dev.calls < MaxInodeWrites
  /\ \E w \in {InodeManager_write_inode(inode_dev.blocks, n, inode)} :
       inode_dev' = [blocks |-> w.blocks,
                     kept |-> IF w.ok THEN [inode_dev.kept EXCEPT ![n] = inode]
                              ELSE inode_dev.kept,
                     calls |-> inode_dev.calls + 1,
                     ok |-> w.ok]
  /\ UNCHANGED basev
  /\ UNCHANGED aux_but_inodev

NextInodes == \E n \in -1..TotalInodes, inode \in InodeValues : WriteInode(n, inode)

SpecInodes == Init /\ [][NextInodes]_vars

\* C37: read_inode(n) yields the inode last written under n, whatever was
\* written under other numbers since, those of the same block included
C37_WriteInodeKeepsOthers ==
  \A n \in InodeNums :
    \E r \in {InodeManager_read_inode(inode_dev.blocks, n)} :
      r.ok /\ r.inode = inode_dev.kept[n]

\* two inodes of one block hold different values that were written to them
C37_NeighboursDiffer ==
  \E n \in InodeNums, m \in InodeNums :
    /\ n # m
    /\ inode_block_num(n) = inode_block_num(m)
    /\ inode_dev.kept[n] \in InodeValues
    /\ inode_dev.kept[m] \in InodeValues
    /\ inode_dev.kept[n] # inode_dev.kept[m]
    /\ InodeManager_read_inode(inode_dev.blocks, n).inode = inode_dev.kept[n]

\* ---------------------------------------------------------------------------
\* Block numbers and the size of the opened image
\* ---------------------------------------------------------------------------
\* block_io.total_blocks is DiskSimulator::total_blocks of the open image,
\* block_io.image one byte for each of its blocks; TotalBlocks is the block
\* count of a default-size image.  A call records the errors it logged.

\* how many block calls one run makes
MaxBlockCalls == 3

\* an image smaller than the default size, one of that size, a larger one
ImageBlockCounts == {TotalBlocks - 2, TotalBlocks, TotalBlocks + 2}

\* block numbers around the ends of those images
BlockNumbers ==
  {-1, 0, TotalBlocks - 3, TotalBlocks - 2, TotalBlocks - 1, TotalBlocks,
   TotalBlocks + 1, TotalBlocks + 2}

\* DiskSimulator::is_ready_for_io on the open device d
DiskSimulator_is_ready_for_io(d, block_num) ==
  block_num >= 0 /\ block_num < d.total_blocks

\* DiskSimulator::write_block
DiskSimulator_write_block(d, block_num, content) ==
  IF ~DiskSimulator_is_ready_for_io(d, block_num)
  THEN [ok |-> FALSE, image |-> d.image, errors |-> {"ERROR_INVALID_BLOCK"}]
  ELSE [ok |-> TRUE, image |-> [d.image EXCEPT ![block_num] = content], errors |-> {}]

\* DiskSimulator::read_block
DiskSimulator_read_block(d, block_num) ==
  IF ~DiskSimulator_is_ready_for_io(d, block_num)
  THEN [ok |-> FALSE, image |-> d.image, errors |-> {"ERROR_INVALID_BLOCK"}]
  ELSE [ok |-> TRUE, image |-> d.image, errors |-> {}]

\* the write of one block in DirectoryManager::write_directory: the index is
\* validated by BlockUtils, then the block is written
write_directory_block(d, block_num, content) ==
  IF ~is_valid_block_index(block_num)
  THEN [ok |-> FALSE, image |-> d.image, errors |-> {"ERROR_INVALID_BLOCK"}]
  ELSE The({ IF w.ok THEN w
             ELSE [w EXCEPT !.errors = @ \cup {"ERROR_IO_ERROR"}]
             : w \in {DiskSimulator_write_block(d, block_num, content)} })

\* the record of a block call
BlockCalled(op, block_num, r) ==
  [block_io EXCEPT !.image = r.image, !.op = op, !.block = block_num,
                   !.ok = r.ok, !.errors = r.errors, !.calls = @ + 1]

BlockStep(d) ==
  /\ block_io.calls < MaxBlockCalls
  /\ block_io' = d
  /\ UNCHANGED basev
  /\ UNCHANGED aux_but_blockv

\* close_disk and open_disk of an image of count blocks
OpenImage(count) ==
  \E d \in {[block_io EXCEPT !.total_blocks = count,
                             !.image = [b \in 0..(count - 1) |-> 0],
                             !.op = "open_disk", !.ok = TRUE, !.errors = {},
                             !.calls = @ + 1]} : BlockStep(d)

ReadBlock(block_num) ==
  \E d \in {BlockCalled("read_block", block_num,
                        DiskSimulator_read_block(block_io, block_num))} : BlockStep(d)

WriteBlock(block_num) ==
  \E d \in {BlockCalled("write_block", block_num,
                        DiskSimulator_write_block(block_io, block_num, 1))} : BlockStep(d)

WriteDirectoryBlock(block_num) ==
  \E d \in {BlockCalled("write_directory", block_num,
                        write_directory_block(block_io, block_num, 2))} : BlockStep(d)

NextBlocks ==
  \/ \E count \in ImageBlockCounts : OpenImage(count)
  \/ \E block_num \in BlockNumbers : ReadBlock(block_num)
  \/ \E block_num \in BlockNumbers : WriteBlock(block_num)
  \/ \E block_num \in BlockNumbers : WriteDirectoryBlock(block_num)

SpecBlocks == Init /\ [][NextBlocks]_vars

\* the step is a block call of one of ops
BlockCall(ops) == block_io'.calls = block_io.calls + 1 /\ block_io'.op \in ops

\* the call took the block number exactly when it lies in the open image, and
\* a refusal logged InvalidBlock and left the image as it was
ValidatedAgainstImage ==
  /\ block_io'.ok <=> (block_io'.block >= 0 /\ block_io'.block < block_io.total_blocks)
  /\ ~block_io'.ok => (/\ "ERROR_INVALID_BLOCK" \in block_io'.errors
                       /\ block_io'.image = block_io.image)

\* C38: every block read and write, the directory writer's included, takes a
\* block number b exactly when 0 <= b < total_blocks of the opened image; a
\* refusal logs InvalidBlock and leaves the image unchanged
C38_BlocksValidatedAgainstImage ==
  [][BlockCall({"read_block", "write_block", "write_directory"})
       => ValidatedAgainstImage]_vars

\* the same of the device's own calls
C38_DeviceValidatesAgainstImage ==
  [][BlockCall({"read_block", "write_block"}) => ValidatedAgainstImage]_vars

\* the directory writer never writes outside the image
C38_DirectoryWriterStaysInImage ==
  [][BlockCall({"write_directory"})
       => (/\ block_io'.ok => (block_io'.block >= 0
                                 /\ block_io'.block < block_io.total_blocks)
           /\ ~block_io'.ok => (/\ "ERROR_INVALID_BLOCK" \in block_io'.errors
                                /\ block_io'.image = block_io.image))]_vars

\* ---------------------------------------------------------------------------
\* Open descriptors and the inodes they name
\* ---------------------------------------------------------------------------

\* C39: every entry of the open-file table names an allocated inode, whatever
\* delete_file, remove_directory and format did since the open; no write_file
\* through an open descriptor attaches data blocks to an inode whose bit is
\* free
C39_OpenDescriptorsNameAllocatedInodes ==
  \A fd \in DOMAIN file_descriptors :
    /\ is_inode_allocated(S, file_descriptors[fd].inode_num)
    /\ \A buffer \in Buffers :
         \E w \in {write_file(S, fd, buffer)} :
           \A n \in InodeNums :
             get_data_blocks(w.s, n).list # <<>> => is_inode_allocated(w.s, n)

\* a write through the descriptor of a deleted file succeeds and leaves data
\* blocks on the free inode
C39_WritesToFreedInode ==
  \E fd \in DOMAIN file_descriptors :
    /\ ~is_inode_allocated(S, file_descriptors[fd].inode_num)
    /\ \E w \in {write_file(S, fd, Pattern(1))} :
         /\ w.ret = 1
         /\ ~is_inode_allocated(w.s, file_descriptors[fd].inode_num)
         /\ get_data_blocks(w.s, file_descriptors[fd].inode_num).list # <<>>

\* ---------------------------------------------------------------------------
\* mount and unmount beside a facade operation of another thread
\* ---------------------------------------------------------------------------
\* Thread 1 runs FileSystem::unmount and FileSystem::mount statement by
\* statement; neither takes fs_mutex_.  Thread 2 runs a facade operation:
\* the guard, ensure_mounted, the body, the return.  um.pc is where thread 1
\* stands, um.op_pc where thread 2 stands ("in": past ensure_mounted, in the
\* body).

\* how many calls the two threads make in one run
MaxUnmountCalls == 4

\* the operations thread 2 calls: one under the exclusive guard, one under the
\* shared guard
UnmountOps == {"create_file", "list_directory"}

Unmounting == {"unmounting", "files_closed", "disk_closed"}
Mounting == {"mount_checked", "opened", "initialized"}

\* unmount: if (!ensure_mounted("unmount")) return false;
UnmountEnter ==
  /\ um.pc = "idle"
  /\ um.calls < MaxUnmountCalls
  /\ um' = [um EXCEPT !.pc = IF um.mounted THEN "unmounting" ELSE "idle",
                      !.calls = @ + 1]
  /\ UNCHANGED basev
  /\ UNCHANGED aux_but_unmountv

\* close_all_files();
UnmountCloseFiles ==
  /\ um.pc = "unmounting"
  /\ Commit(close_all_files(S))
  /\ um' = [um EXCEPT !.pc = "files_closed"]
  /\ UNCHANGED facade_rest
  /\ UNCHANGED aux_but_unmountv

\* disk.close_disk();
UnmountCloseDisk ==
  /\ um.pc = "files_closed"
  /\ um' = [um EXCEPT !.pc = "disk_closed", !.disk_open = FALSE]
  /\ UNCHANGED basev
  /\ UNCHANGED aux_but_unmountv

\* mounted = false; return true;
UnmountLeave ==
  /\ um.pc = "disk_closed"
  /\ um' = [um EXCEPT !.pc = "idle", !.mounted = FALSE]
  /\ UNCHANGED basev
  /\ UNCHANGED aux_but_unmountv

\* mount: if (mounted) return false;
MountEnter ==
  /\ um.pc = "idle"
  /\ um.calls < MaxUnmountCalls
  /\ um' = [um EXCEPT !.pc = IF um.mounted THEN "idle" ELSE "mount_checked",
                      !.calls = @ + 1]
  /\ UNCHANGED basev
  /\ UNCHANGED aux_but_unmountv

\* disk.open_disk(disk_path)
MountOpenDisk ==
  /\ um.pc = "mount_checked"
  /\ um' = [um EXCEPT !.pc = "opened", !.disk_open = TRUE]
  /\ UNCHANGED basev
  /\ UNCHANGED aux_but_unmountv

\* initialize_after_open()
MountInitialize ==
  /\ um.pc = "opened"
  /\ Commit(mount(S).s)
  /\ um' = [um EXCEPT !.pc = "initialized"]
  /\ UNCHANGED facade_rest
  /\ UNCHANGED aux_but_unmountv

\* mounted = true; return true;
MountLeave ==
  /\ um.pc = "initialized"
  /\ um' = [um EXCEPT !.pc = "idle", !.mounted = TRUE]
  /\ UNCHANGED basev
  /\ UNCHANGED aux_but_unmountv

\* thread 2 calls a facade operation
OperationCall(op) ==
  /\ um.op_pc = "idle"
  /\ um.calls < MaxUnmountCalls
  /\ um' = [um EXCEPT !.op = op, !.op_pc = "call", !.calls = @ + 1]
  /\ UNCHANGED basev
  /\ UNCHANGED aux_but_unmountv

\* auto guard = acquire_unique_lock(); or acquire_shared_lock();
OperationAcquire ==
  /\ um.op_pc = "call"
  /\ \E g \in {guard(um.op, fs_mutex, 2)} :
       /\ g.free
       /\ fs_mutex' = g.m
  /\ um' = [um EXCEPT !.op_pc = "locked"]
  /\ UNCHANGED <<inode_bitmap, data_bitmap, saved_inode_bitmap, saved_data_bitmap,
                 inode_table, disk, file_descriptors, next_fd,
                 last, nops, dispatcher_mutex, workers, ntasks>>
  /\ UNCHANGED aux_but_unmountv

\* if (!ensure_mounted(...)) return ...; the guard is destroyed on the return
OperationEnsureMounted ==
  /\ um.op_pc = "locked"
  /\ IF um.mounted
     THEN /\ um' = [um EXCEPT !.op_pc = "in"]
          /\ UNCHANGED fs_mutex
     ELSE /\ um' = [um EXCEPT !.op_pc = "idle", !.op_ok = FALSE,
                              !.op_err = "ERROR_NOT_MOUNTED"]
          /\ fs_mutex' = unlock(fs_mutex, 2)
  /\ UNCHANGED <<inode_bitmap, data_bitmap, saved_inode_bitmap, saved_data_bitmap,
                 inode_table, disk, file_descriptors, next_fd,
                 last, nops, dispatcher_mutex, workers, ntasks>>
  /\ UNCHANGED aux_but_unmountv

\* the body of the operation and its return: on a device that was closed
\* meanwhile every block transfer fails (is_ready_for_io), and so does the call
OperationReturn ==
  /\ um.op_pc = "in"
  /\ IF ~um.disk_open
     THEN /\ um' = [um EXCEPT !.op_pc = "idle", !.op_ok = FALSE,
                              !.op_err = "ERROR_FILE_NOT_OPEN"]
          /\ UNCHANGED <<inode_bitmap, data_bitmap, saved_inode_bitmap,
                         saved_data_bitmap, inode_table, disk, file_descriptors,
                         next_fd>>
     ELSE IF um.op = "create_file"
     THEN \E c \in {create_file(S, <<"a">>)} :
            /\ Commit(c.s)
            /\ um' = [um EXCEPT !.op_pc = "idle", !.op_ok = c.ret >= 0,
                                !.op_err = IF c.ret >= 0 THEN "none" ELSE "lower"]
     ELSE /\ um' = [um EXCEPT !.op_pc = "idle",
                              !.op_ok = list_directory(S, <<>>).ok,
                              !.op_err = "none"]
          /\ UNCHANGED <<inode_bitmap, data_bitmap, saved_inode_bitmap,
                         saved_data_bitmap, inode_table, disk, file_descriptors,
                         next_fd>>
  /\ fs_mutex' = unlock(fs_mutex, 2)
  /\ UNCHANGED <<last, nops, dispatcher_mutex, workers, ntasks>>
  /\ UNCHANGED aux_but_unmountv

NextUnmount ==
  \/ UnmountEnter
  \/ UnmountCloseFiles
  \/ UnmountCloseDisk
  \/ UnmountLeave
  \/ MountEnter
  \/ MountOpenDisk
  \/ MountInitialize
  \/ MountLeave
  \/ \E op \in UnmountOps : OperationCall(op)
  \/ OperationAcquire
  \/ OperationEnsureMounted
  \/ OperationReturn

SpecUnmount == Init /\ [][NextUnmount]_vars

\* C40: while unmount closes the handles and the device, or mount initializes
\* them, no facade operation of another thread is in its body
C40_MountUnmountExclusive ==
  um.pc \in Unmounting \cup Mounting => um.op_pc # "in"

\* an operation that passed ensure_mounted found the device closed under it
C40_DeviceClosedUnderOperation ==
  /\ um.op_pc = "idle"
  /\ ~um.op_ok
  /\ um.op_err = "ERROR_FILE_NOT_OPEN"

\* an operation is in its body while mount initializes the facade
C40_OperationDuringMount ==
  um.pc \in Mounting /\ um.op_pc = "in"

\* the guard itself works: the operation holds fs_mutex_ while in its body
C40_OperationHoldsGuard ==
  um.op_pc \in {"locked", "in"} =>
    (IF um.op \in SharedGuarded THEN 2 \in fs_mutex.readers ELSE fs_mutex.writer = 2)

====
